---------------------------- MODULE Spec2Model ----------------------------
(***************************************************************************)
(* A model of the passive wireless observation engine of WBS:              *)
(*   src/modules/pytag_module.py  (AirTagDetector: classifier, Device      *)
(*                                 Registry, presentation reads, scanner   *)
(*                                 loop)                                   *)
(*   src/modules/wss_module.py    (WiFiScanner: Network Registry)          *)
(*                                                                         *)
(* Time is discrete.  A registry entry does not store the wall-clock       *)
(* value of last_seen but its age, now - last_seen, which is all the code  *)
(* ever computes from it (cleanup_stale_devices: last_seen < now -         *)
(* device_timeout, i.e. age > device_timeout).  Tick advances the clock:   *)
(* it ages every entry; ages saturate one above device_timeout, where      *)
(* every comparison of the code has the same outcome.                      *)
(*                                                                         *)
(* A dict is a sequence of its values in insertion order (Python dicts     *)
(* iterate in insertion order); the key of a value is its address field.   *)
(***************************************************************************)
EXTENDS Integers, Sequences, FiniteSets, TLC

VARIABLES
    detected_airtags,  \* self.detected_airtags: the Device Registry
    airtags_lock,      \* self.airtags_lock: "free", or the thread holding it
    device_timeout,    \* self.device_timeout
    ble_pc,            \* BLE worker thread: where it is in a registry operation
    cb,                \* detection_callback's locals while it holds the lock
    delivered,         \* advertisements the source delivered and the callback accepted
    ui_pc,             \* presentation loop: the next step of one refresh
    devices_copy,      \* create_display_table's devices_copy
    sorted_devices,    \* create_display_table's sorted_devices (the rows shown)
    since_copy,        \* history: what happened to the registry since the last copy
    copy_basis,        \* history: since_copy as it was when the last copy was taken
    discovered_networks,  \* WiFiScanner.discovered_networks: the Network Registry
    networks,          \* scan_networks' networks: the observations of the last scan
    classified,        \* is_airtag's argument
    verdict,           \* what the call of is_airtag came to
    scanning,          \* self.scanning: the stop flag (FALSE: stop)
    scan_count,        \* self.scan_count
    sup_pc,            \* scanner_loop: the next step of the BLE worker's coroutine
    sleep_left,        \* ticks left of the asyncio.sleep the coroutine is in
    failure,           \* class of the exception scanner_loop caught last
    source_active,     \* a BleakScanner is started and delivers advertisements
    main_pc,           \* run_cli_interface: the next step of the main thread
    join_left,         \* ticks left of scanner_thread.join(timeout=5)
    failures,          \* history: exceptions scanner_loop has caught
    waited,            \* history: ticks since scanner_loop began its backoff sleep
    line,              \* _parse_nmcli_line_robust's argument, a sequence of characters
    parsed,            \* what the call of _parse_nmcli_line_robust came to
    commands,          \* what run_command returns for each command of a scan cycle
    scan_result,       \* what the call of scan_networks came to
    cmd_pc,            \* the unified app: at its menu, or in a command
    reported,          \* show_statistics' "Total networks" ({}: nothing shown yet)
    found,             \* history: the identifiers the commands of this run stored
    wifi_network,      \* a WiFiNetwork: its fields as the constructor left them
    channel_call,      \* a call of _parse_channel: its arguments and what it came to
    observed,          \* history: the advertisement detection_callback was called with last
    accepted,          \* history: the addresses whose payload is_airtag has accepted
    ingested,          \* history: address -> the entries stored for it, all in all
    evicted,           \* history: address -> the counts of its entries that were removed
    after_stop         \* history: the scans counted and the evictions run with the flag down

registryVars == <<detected_airtags, airtags_lock, device_timeout, ble_pc, cb, delivered>>
uiVars == <<ui_pc, devices_copy, sorted_devices, since_copy, copy_basis>>
netVars == <<discovered_networks, networks>>
clsVars == <<classified, verdict>>
supVars == <<scanning, scan_count, sup_pc, sleep_left, failure, source_active,
             main_pc, join_left, failures, waited>>
parVars == <<line, parsed>>
scanVars == <<commands, scan_result>>
appVars == <<cmd_pc, reported, found>>
derVars == <<wifi_network, channel_call>>
workVars == <<clsVars, parVars, scanVars, appVars, derVars>>
histVars == <<observed, accepted, ingested, evicted>>
stopVars == <<after_stop>>
restVars == <<workVars, histVars, stopVars>>
vars == <<registryVars, uiVars, netVars, restVars, supVars>>

-----------------------------------------------------------------------------
(* Bounds and inputs *)

\* The addresses the BLE source reports.
Addresses == {"A1", "A2"}

\* The signal strengths the BLE source reports (dBm).
RssiValues == {-80, -70, -60}

\* Accepted advertisements of one run: with both threads, and for the BLE
\* worker alone.
MaxDetections == 2
MaxIngests == 4

\* device_timeout of the modelled run, in ticks (run_pytag's timeout parameter,
\* 60 by default: scaled down), with both threads and for the BLE worker alone.
DeviceTimeout == 1
WorkerTimeout == 2

-----------------------------------------------------------------------------
(* Advertisement Classifier: AirTagDetector.is_airtag *)

\* apple_data[i], Python's 0-based index into a bytes object.
ByteAt(apple_data, i) == apple_data[i + 1]

is_airtag_any_length(apple_data) ==
    IF Len(apple_data) < 2 THEN FALSE
    ELSE IF apple_data[1] = 18
    THEN Len(apple_data) >= 3 /\ apple_data[2] = 25 /\ apple_data[3] = 16
    ELSE IF apple_data[1] = 7
    THEN apple_data[2] = 25
    ELSE FALSE

is_airtag(apple_data) ==
    IF Len(apple_data) < 2 THEN FALSE
    ELSE LET payload_type == ByteAt(apple_data, 0) IN
         IF payload_type = 18      \* 0x12
         THEN IF Len(apple_data) >= 3
              THEN LET payload_length == ByteAt(apple_data, 1) IN
                   IF payload_length = 25 /\ Len(apple_data) >= 4   \* 0x19
                   THEN ByteAt(apple_data, 2) = 16                  \* 0x10
                   ELSE FALSE
              ELSE FALSE
         ELSE IF payload_type = 7  \* 0x07
         THEN IF Len(apple_data) >= 2
              THEN ByteAt(apple_data, 1) = 25
              ELSE FALSE
         ELSE FALSE

\* The indexes is_airtag reads of apple_data on the path it takes: a read at
\* or behind len(apple_data) raises IndexError.
is_airtag_reads(apple_data) ==
    IF Len(apple_data) < 2 THEN {}
    ELSE {0} \cup
         (IF ByteAt(apple_data, 0) = 18
          THEN IF Len(apple_data) >= 3
               THEN {1} \cup (IF ByteAt(apple_data, 1) = 25 /\ Len(apple_data) >= 4
                              THEN {2} ELSE {})
               ELSE {}
          ELSE IF ByteAt(apple_data, 0) = 7
          THEN IF Len(apple_data) >= 2 THEN {1} ELSE {}
          ELSE {})

\* A call of is_airtag: what it returns, or the exception it raises.
CallIsAirtag(payload) ==
    IF \E i \in is_airtag_reads(payload) : i >= Len(payload) THEN "IndexError"
    ELSE IF is_airtag(payload) THEN "true"
    ELSE "false"

\* Before any call of the parser, of scan_networks and of a command of the app.
NotParsed == [status |-> "pending"]
NoCommands == [rescan |-> FALSE, iwlist |-> FALSE, nmcli |-> FALSE,
               rssi_data |-> {}, output |-> <<>>]

ParInit ==
    /\ line = <<>>
    /\ parsed = NotParsed

ScanInit ==
    /\ commands = NoCommands
    /\ scan_result = "pending"

AppInit ==
    /\ cmd_pc = "menu"
    /\ reported = {}
    /\ found = {}

\* No WiFiNetwork is being constructed, and _parse_channel is not called.
NoNetwork == [constructed |-> "no"]
NoCall == [status |-> "none"]

DerInit ==
    /\ wifi_network = NoNetwork
    /\ channel_call = NoCall

\* Nothing has been observed, stored or removed yet.
NotObserved == [address |-> "", manufacturer_data |-> <<>>]

HistInit ==
    /\ observed = NotObserved
    /\ accepted = {}
    /\ ingested = [address \in Addresses |-> 0]
    /\ evicted = [address \in Addresses |-> 0]

StopInit == after_stop = [scans |-> 0, evictions |-> 0]

RestInit == ParInit /\ ScanInit /\ AppInit /\ DerInit /\ HistInit /\ StopInit

\* The bytes and the lengths of the payloads classified.
ByteValues == {0, 7, 16, 17, 18, 24, 25}
MaxPayloadLen == 4

PayloadsUpTo(n) == UNION {[1..k -> ByteValues] : k \in 0..n}

ClsInit ==
    /\ classified = <<>>
    /\ verdict = "pending"
    /\ RestInit

-----------------------------------------------------------------------------
(* Distance Estimator: AirTagDetector.calculate_distance *)

tx_power == -59

\* The float result in centimetres, rounded, for the signal strengths of the
\* model: -1.0 for rssi 0; ratio^10 if ratio = rssi / tx_power < 1.0;
\* 0.89976 * ratio^7.7095 + 0.111 otherwise.
calculate_distance(rssi) ==
    IF rssi = 0 THEN -100
    ELSE IF rssi > tx_power      \* ratio < 1.0 (tx_power is negative)
    THEN CASE rssi = -50 -> 19
           [] rssi = -40 -> 2
           [] OTHER -> 0
    ELSE CASE rssi = -59 -> 101
           [] rssi = -60 -> 114
           [] rssi = -70 -> 347
           [] rssi = -80 -> 952
           [] rssi = -90 -> 2344
           [] OTHER -> 9999

-----------------------------------------------------------------------------
(* The dict operations the code uses on self.detected_airtags *)

Keys(d) == {d[i].address : i \in 1..Len(d)}

IndexOf(d, address) == CHOOSE i \in 1..Len(d) : d[i].address = address

Get(d, address) == d[IndexOf(d, address)]

\* d[address] = device: an existing key keeps its place, a new key goes last.
SetItem(d, address, device) ==
    IF address \in Keys(d)
    THEN [d EXCEPT ![IndexOf(d, address)] = device]
    ELSE Append(d, device)

\* del d[addr] for every addr of stale.
DelItems(d, stale) ==
    LET keep(e) == e.address \notin stale IN SelectSeq(d, keep)

-----------------------------------------------------------------------------
(* Device Registry: detection_callback, lines 159-195 *)

TrendSwapped(rssi, old_rssi) ==
    IF rssi > old_rssi THEN "blue"
    ELSE IF rssi < old_rssi THEN "red"
    ELSE "green"

Trend(rssi, old_rssi) ==
    IF rssi > old_rssi THEN "red"
    ELSE IF rssi < old_rssi THEN "blue"
    ELSE "green"

UpdatedDeviceCountKept(old_device, address, rssi, distance) ==
    [address |-> address, rssi |-> rssi, distance |-> distance,
     trend |-> IF rssi > old_device.rssi THEN "red"
               ELSE IF rssi < old_device.rssi THEN "blue" ELSE "green",
     count |-> old_device.count, age |-> 0]

\* The AirTagDevice the callback stores for an address it already tracks.
UpdatedDevice(old_device, address, rssi, distance) ==
    [address |-> address, rssi |-> rssi, distance |-> distance,
     trend |-> Trend(rssi, old_device.rssi),
     count |-> old_device.count + 1, age |-> 0]

\* A new entry that begins at a count of 2.
NewDeviceCountTwo(address, rssi, distance) ==
    [address |-> address, rssi |-> rssi, distance |-> distance,
     trend |-> "green", count |-> 2, age |-> 0]

\* The AirTagDevice the callback stores for a new address.
NewDevice(address, rssi, distance) ==
    [address |-> address, rssi |-> rssi, distance |-> distance,
     trend |-> "green", count |-> 1, age |-> 0]

Ingest(d, address, rssi, distance) ==
    IF address \in Keys(d)
    THEN SetItem(d, address, UpdatedDevice(Get(d, address), address, rssi, distance))
    ELSE SetItem(d, address, NewDevice(address, rssi, distance))

-----------------------------------------------------------------------------
(* Device Registry: cleanup_stale_devices, lines 197-211 *)

IsStaleAtTimeout(device, timeout) == device.age >= timeout

\* device.last_seen < current_time - timedelta(seconds=self.device_timeout)
IsStale(device, timeout) == device.age > timeout

StaleAddresses(d, timeout) ==
    {d[i].address : i \in {j \in 1..Len(d) : IsStale(d[j], timeout)}}

RemoveStale(d, timeout) == DelItems(d, StaleAddresses(d, timeout))

-----------------------------------------------------------------------------
(* Presentation: create_display_table, lines 230-243 *)

DictAlias(d) == [live |-> TRUE, items |-> d]

\* A copy that leaves the stale entries out.
DictCopyFresh(d) == [live |-> FALSE, items |-> RemoveStale(d, device_timeout)]

\* dict(self.detected_airtags): a new dict with the same items.  live tells a
\* reference to the registry itself from a copy of it.
DictCopy(d) == [live |-> FALSE, items |-> d]

\* What a reader of devices_copy sees.
Items(copy, registry) == IF copy.live THEN registry ELSE copy.items

InsertByRssiAscending(s, e) ==
    LET before == {i \in 1..Len(s) : s[i].rssi > e.rssi}
        at == IF before = {} THEN Len(s) + 1
              ELSE CHOOSE i \in before : \A j \in before : i <= j
    IN  SubSeq(s, 1, at - 1) \o <<e>> \o SubSeq(s, at, Len(s))

\* One step of a stable sort by rssi descending: e goes behind every element
\* whose rssi is not smaller.
InsertByRssi(s, e) ==
    LET before == {i \in 1..Len(s) : s[i].rssi < e.rssi}
        at == IF before = {} THEN Len(s) + 1
              ELSE CHOOSE i \in before : \A j \in before : i <= j
    IN  SubSeq(s, 1, at - 1) \o <<e>> \o SubSeq(s, at, Len(s))

RECURSIVE SortFrom(_, _)
SortFrom(done, rest) ==
    IF rest = <<>> THEN done
    ELSE SortFrom(InsertByRssi(done, Head(rest)), Tail(rest))

\* sorted(devices_copy.items(), key=lambda x: x[1].rssi, reverse=True)
SortedByRssi(items) == SortFrom(<<>>, items)

-----------------------------------------------------------------------------
(* Network Registry: WiFiScanner._add_unique_networks, lines 258-272 *)

\* Python's None.
None == "None"

\* f"{network.ssid}|{network.bssid or 'no_bssid'}"
Identifier(network) ==
    network.ssid \o "|" \o
        (IF network.bssid = None \/ network.bssid = "" THEN "no_bssid" ELSE network.bssid)

\* Lines 261-265: the identifiers of the stored networks.
ExistingNetworks(discovered) == {Identifier(discovered[i]) : i \in 1..Len(discovered)}

AppendInFront(discovered, network) == <<network>> \o discovered

\* Line 271: self.discovered_networks.append(network)
AppendNetwork(discovered, network) == Append(discovered, network)

Forget(existing_networks, identifier) == existing_networks

\* Line 272: existing_networks.add(identifier)
Remember(existing_networks, identifier) == existing_networks \cup {identifier}

\* Lines 268-272: the loop over new_networks.
RECURSIVE AddEach(_, _, _)
AddEach(discovered, existing_networks, new_networks) ==
    IF new_networks = <<>> THEN discovered
    ELSE LET network == Head(new_networks)
             identifier == Identifier(network)
         IN  IF identifier \notin existing_networks
             THEN AddEach(AppendNetwork(discovered, network),
                          Remember(existing_networks, identifier),
                          Tail(new_networks))
             ELSE AddEach(discovered, existing_networks, Tail(new_networks))

add_unique_networks(discovered, new_networks) ==
    AddEach(discovered, ExistingNetworks(discovered), new_networks)

\* WiFiScanner.__init__, line 162.
NetInit ==
    /\ discovered_networks = <<>>
    /\ networks = <<>>

\* The observations a scan cycle can come up with: net1 is seen with and
\* without its BSSID, net2 always with it.
Ssids == {"net1", "net2"}
Bssids == {None, "AA:BB:CC:DD:EE:FF"}
Signals == {40, 75}

Observations ==
    {o \in [ssid : Ssids, bssid : Bssids, signal : Signals,
            security : {"WPA2"}, frequency : {2437}, rssi : {{}}] :
        o.ssid = "net2" => o.bssid # None}

\* Observations of one scan cycle.
MaxBatch == 2

Batches == UNION {[1..n -> Observations] : n \in 0..MaxBatch}

\* scan_networks, lines 254-256: the networks of this cycle are offered to the
\* registry and returned.
ScanNetworks(new_networks) ==
    /\ networks' = new_networks
    /\ discovered_networks' = add_unique_networks(discovered_networks, new_networks)
    /\ UNCHANGED registryVars
    /\ UNCHANGED uiVars
    /\ UNCHANGED <<clsVars, parVars, scanVars, derVars, histVars, stopVars, supVars>>

-----------------------------------------------------------------------------
(* The initial state: AirTagDetector.__init__, run_pytag *)

NoCallback == [address |-> "", rssi |-> 0, distance |-> 0]

RegistryInit(timeout) ==
    /\ detected_airtags = <<>>
    /\ airtags_lock = "free"
    /\ device_timeout = timeout
    /\ ble_pc = "idle"
    /\ cb = NoCallback
    /\ delivered = 0

UiInit ==
    /\ ui_pc = "status"
    /\ devices_copy = DictCopy(<<>>)
    /\ sorted_devices = <<>>
    /\ since_copy = "mutated"
    /\ copy_basis = "mutated"

\* AirTagDetector.__init__, lines 55-61; no thread is started yet.
SupInit ==
    /\ scanning = FALSE
    /\ scan_count = 0
    /\ sup_pc = "unstarted"
    /\ sleep_left = 0
    /\ failure = "none"
    /\ source_active = FALSE
    /\ main_pc = "idle"
    /\ join_left = 0
    /\ failures = 0
    /\ waited = 0

\* scanner_loop's delays: lines 61, 331 and 340; join's timeout, line 398; the
\* period of the cleanup in scans, line 319.
scan_interval == 1
ShortBackoff == 5
LongBackoff == 15
JoinTimeout == 5
CleanupPeriod == 30

-----------------------------------------------------------------------------
(* The clock *)

AgeOne(device) ==
    [device EXCEPT !.age = IF @ > device_timeout THEN @ ELSE @ + 1]

Aged(d) == [i \in 1..Len(d) |-> AgeOne(d[i])]

CountDown(left) == IF left > 0 THEN left - 1 ELSE 0

Tick ==
    /\ detected_airtags' = Aged(detected_airtags)
    /\ since_copy' = IF detected_airtags' # detected_airtags /\ since_copy = "clean"
                     THEN "aged" ELSE since_copy
    /\ sleep_left' = CountDown(sleep_left)
    /\ join_left' = CountDown(join_left)
    /\ waited' = IF sup_pc = "backoff" /\ waited < LongBackoff THEN waited + 1 ELSE waited
    /\ UNCHANGED <<airtags_lock, device_timeout, ble_pc, cb, delivered>>
    /\ UNCHANGED <<ui_pc, devices_copy, sorted_devices, copy_basis>>
    /\ UNCHANGED <<netVars, restVars>>
    /\ UNCHANGED <<scanning, scan_count, sup_pc, failure, source_active, main_pc, failures>>

-----------------------------------------------------------------------------
(* BLE worker: detection_callback *)

\* The manufacturer_data mappings the source delivers: company id -> payload.
NoData == <<>>
AppleData(payload) == [company \in {76} |-> payload]
OtherVendor == [company \in {6} |-> <<1, 2>>]

Payloads == {<<>>, <<18, 25, 16, 0>>, <<7, 25>>, <<18, 25, 17, 0>>, <<7, 24>>}

ManufacturerData == {NoData, OtherVendor} \cup {AppleData(p) : p \in Payloads}

\* manufacturer_data.get(76)
GetApple(manufacturer_data) ==
    IF 76 \in DOMAIN manufacturer_data THEN manufacturer_data[76] ELSE <<>>

\* The callback going on to the registry without asking is_airtag.
AcceptedWithoutClassifier(manufacturer_data) ==
    /\ manufacturer_data # <<>>
    /\ GetApple(manufacturer_data) # <<>>

\* Lines 126-149: the callback goes on to the registry.
Accepted(manufacturer_data) ==
    /\ manufacturer_data # <<>>
    /\ GetApple(manufacturer_data) # <<>>
    /\ is_airtag(GetApple(manufacturer_data))

\* Lines 119-160: the callback is called, filters the advertisement and, for
\* an accepted one, takes the lock.  It blocks while the lock is held.  The
\* lines it appends to debug_buffer (lines 134-145) are text for the activity
\* panel; the registry operations never read them, and they are left out.
DetectionCallback(address, rssi, manufacturer_data) ==
    /\ ble_pc = "idle"
    /\ IF Accepted(manufacturer_data)
       THEN /\ airtags_lock = "free"
            /\ airtags_lock' = "ble"
            /\ ble_pc' = "callback"
            /\ cb' = [address |-> address, rssi |-> rssi,
                      distance |-> calculate_distance(rssi)]
            /\ delivered' = delivered + 1
       ELSE UNCHANGED <<airtags_lock, ble_pc, cb, delivered>>
    /\ UNCHANGED <<detected_airtags, device_timeout>>
    /\ UNCHANGED uiVars
    /\ UNCHANGED <<netVars, workVars>>

\* The body of the with block, were the lock not released at its end.
CallbackStoreKeepingLock ==
    /\ ble_pc = "callback"
    /\ detected_airtags' = Ingest(detected_airtags, cb.address, cb.rssi, cb.distance)
    /\ ble_pc' = "idle"
    /\ cb' = NoCallback
    /\ since_copy' = "mutated"
    /\ UNCHANGED <<airtags_lock, device_timeout, delivered>>
    /\ UNCHANGED <<ui_pc, devices_copy, sorted_devices, copy_basis>>
    /\ UNCHANGED <<netVars, workVars>>

\* Lines 161-195: the body of the with block, and the release at its end.
CallbackStore ==
    /\ ble_pc = "callback"
    /\ detected_airtags' = Ingest(detected_airtags, cb.address, cb.rssi, cb.distance)
    /\ airtags_lock' = "free"
    /\ ble_pc' = "idle"
    /\ cb' = NoCallback
    /\ since_copy' = "mutated"
    /\ UNCHANGED <<device_timeout, delivered>>
    /\ UNCHANGED <<ui_pc, devices_copy, sorted_devices, copy_basis>>
    /\ UNCHANGED <<netVars, workVars>>

-----------------------------------------------------------------------------
(* BLE worker: cleanup_stale_devices *)

\* Line 199: the lock is taken.
CleanupAcquire ==
    /\ ble_pc = "idle"
    /\ airtags_lock = "free"
    /\ airtags_lock' = "ble"
    /\ ble_pc' = "cleanup"
    /\ UNCHANGED <<detected_airtags, device_timeout, cb, delivered>>
    /\ UNCHANGED uiVars
    /\ UNCHANGED <<netVars, restVars>>

\* Lines 200-211: the body of the with block, and the release at its end.
CleanupRemove ==
    /\ ble_pc = "cleanup"
    /\ detected_airtags' = RemoveStale(detected_airtags, device_timeout)
    /\ airtags_lock' = "free"
    /\ ble_pc' = "idle"
    /\ since_copy' = IF detected_airtags' # detected_airtags THEN "mutated" ELSE since_copy
    /\ UNCHANGED <<device_timeout, cb, delivered>>
    /\ UNCHANGED <<ui_pc, devices_copy, sorted_devices, copy_basis>>
    /\ UNCHANGED <<netVars, workVars>>

-----------------------------------------------------------------------------
(* The BLE worker's registry operations, their history written down *)

\* The classifier accepts the payload the advertisement has for company 76.
ClassifierAccepts(manufacturer_data) ==
    76 \in DOMAIN manufacturer_data /\ is_airtag(manufacturer_data[76])

\* detection_callback is called, lines 119-160.
CallbackObserved(address, rssi, manufacturer_data) ==
    /\ DetectionCallback(address, rssi, manufacturer_data)
    /\ observed' = [address |-> address, manufacturer_data |-> manufacturer_data]
    /\ accepted' = IF ClassifierAccepts(manufacturer_data)
                   THEN accepted \cup {address} ELSE accepted
    /\ UNCHANGED <<ingested, evicted>>

\* detection_callback stores its entry, lines 161-195.
StoreObserved ==
    /\ CallbackStore
    /\ ingested' = [ingested EXCEPT ![cb.address] = @ + 1]
    /\ UNCHANGED <<observed, accepted, evicted>>

\* cleanup_stale_devices removes the stale entries, lines 200-211.
CleanupObserved ==
    /\ CleanupRemove
    /\ evicted' =
           [address \in Addresses |->
               IF address \in StaleAddresses(detected_airtags, device_timeout)
               THEN evicted[address] + Get(detected_airtags, address).count
               ELSE evicted[address]]
    /\ UNCHANGED <<observed, accepted, ingested>>

-----------------------------------------------------------------------------
(* Presentation loop: one refresh of run_cli_interface, lines 376-383 *)

\* create_status_panel, line 273 (run_simple_mode, line 423): the panel shows
\* len(self.detected_airtags), which it reads without taking the lock.
StatusPanel ==
    /\ ui_pc = "status"
    /\ ui_pc' = "table"
    /\ UNCHANGED registryVars
    /\ UNCHANGED <<devices_copy, sorted_devices, since_copy, copy_basis>>
    /\ UNCHANGED <<netVars, restVars>>
    /\ UNCHANGED supVars

\* create_display_table, line 231 (run_simple_mode, line 451): the lock is taken.
TableAcquire ==
    /\ ui_pc = "table"
    /\ airtags_lock = "free"
    /\ airtags_lock' = "ui"
    /\ ui_pc' = "copy"
    /\ UNCHANGED <<detected_airtags, device_timeout, ble_pc, cb, delivered>>
    /\ UNCHANGED <<devices_copy, sorted_devices, since_copy, copy_basis>>
    /\ UNCHANGED <<netVars, restVars>>
    /\ UNCHANGED supVars

\* Line 232 (452): the copy, and the release at the end of the with block.
TableCopy ==
    /\ ui_pc = "copy"
    /\ devices_copy' = DictCopy(detected_airtags)
    /\ airtags_lock' = "free"
    /\ ui_pc' = "sort"
    /\ copy_basis' = since_copy
    /\ since_copy' = "clean"
    /\ UNCHANGED <<detected_airtags, device_timeout, ble_pc, cb, delivered>>
    /\ UNCHANGED sorted_devices
    /\ UNCHANGED <<netVars, restVars>>
    /\ UNCHANGED supVars

\* Lines 234-243 (454-460): the rows, sorted; none for an empty copy.  The
\* function returns, its devices_copy is gone, and the loop sleeps (line 383)
\* until the next refresh.
TableSort ==
    /\ ui_pc = "sort"
    /\ sorted_devices' = SortedByRssi(Items(devices_copy, detected_airtags))
    /\ devices_copy' = DictCopy(<<>>)
    /\ ui_pc' = "status"
    /\ UNCHANGED registryVars
    /\ UNCHANGED <<since_copy, copy_basis>>
    /\ UNCHANGED <<netVars, restVars>>
    /\ UNCHANGED supVars

-----------------------------------------------------------------------------
(* Scan Supervisor: AirTagDetector.scanner_loop, lines 300-340, and the main  *)
(* thread that starts and stops it, run_cli_interface, lines 361-398          *)
(* (run_simple_mode, lines 407-524).  The coroutine and the callbacks of the  *)
(* source run on one event loop: a callback runs only while the coroutine is  *)
(* suspended, and the coroutine goes on only when no callback is running.     *)

\* Scans of one run while the flag is up; the poll that is under way when the
\* flag goes down is counted as well.
MaxScans == 30

\* Exceptions scanner_loop catches in one run.
MaxFailures == 2

\* What BleakScanner(), scanner.start() and scanner.stop() can come to.
SourceOutcomes == {"ok", "BleakError", "Exception"}

BackoffFlat(failure_class) == ShortBackoff

\* Lines 324-340: the sleep of the handler that catches the exception.
BackoffDelay(failure_class) ==
    IF failure_class = "BleakError" THEN ShortBackoff ELSE LongBackoff

\* Lines 361-364: the flag is set and the worker thread started.
StartRun ==
    /\ main_pc = "idle"
    /\ scanning' = TRUE
    /\ sup_pc' = "check"
    /\ main_pc' = "loop"
    /\ UNCHANGED <<scan_count, sleep_left, failure, source_active, join_left,
                   failures, waited>>
    /\ UNCHANGED <<registryVars, uiVars, netVars, restVars>>

\* Line 302: while self.scanning.
LoopCheck ==
    /\ sup_pc = "check"
    /\ ble_pc = "idle"
    /\ sup_pc' = IF scanning THEN "starting" ELSE "stopped"
    /\ UNCHANGED <<scanning, scan_count, sleep_left, failure, source_active,
                   main_pc, join_left, failures, waited>>
    /\ UNCHANGED <<registryVars, uiVars, netVars, restVars>>

Uncaught(failure_class) ==
    /\ failures < MaxFailures
    /\ failure' = failure_class
    /\ failures' = failures + 1
    /\ sup_pc' = "crashed"
    /\ UNCHANGED <<sleep_left, waited>>

\* The except clauses, lines 324-340: the exception is caught and the
\* coroutine sleeps.
Caught(failure_class) ==
    /\ failures < MaxFailures
    /\ failure' = failure_class
    /\ failures' = failures + 1
    /\ sup_pc' = "backoff"
    /\ sleep_left' = BackoffDelay(failure_class)
    /\ waited' = 0

\* Lines 304-311: a scanner is made and started.
StartScanner(outcome) ==
    /\ sup_pc = "starting"
    /\ ble_pc = "idle"
    /\ IF outcome = "ok"
       THEN /\ source_active' = TRUE
            /\ sup_pc' = "running"
            /\ UNCHANGED <<sleep_left, failure, failures, waited>>
       ELSE /\ Caught(outcome)
            /\ UNCHANGED source_active
    /\ UNCHANGED <<scanning, scan_count, main_pc, join_left>>
    /\ UNCHANGED <<registryVars, uiVars, netVars, restVars>>

\* The inner loop, were it to go round until two scans are counted with the
\* flag down.
RunningCheckTwiceMore ==
    /\ sup_pc = "running"
    /\ ble_pc = "idle"
    /\ IF scanning \/ after_stop.scans < 2
       THEN /\ sup_pc' = "poll"
            /\ sleep_left' = scan_interval
       ELSE /\ sup_pc' = "stopping"
            /\ UNCHANGED sleep_left
    /\ UNCHANGED <<scanning, scan_count, failure, source_active, main_pc,
                   join_left, failures, waited>>
    /\ UNCHANGED <<registryVars, uiVars, netVars, restVars>>

\* Lines 314-315: while self.scanning, sleep for scan_interval; line 322 is
\* next when the flag is down.
RunningCheck ==
    /\ sup_pc = "running"
    /\ ble_pc = "idle"
    /\ IF scanning
       THEN /\ sup_pc' = "poll"
            /\ sleep_left' = scan_interval
       ELSE /\ sup_pc' = "stopping"
            /\ UNCHANGED sleep_left
    /\ UNCHANGED <<scanning, scan_count, failure, source_active, main_pc,
                   join_left, failures, waited>>
    /\ UNCHANGED <<registryVars, uiVars, netVars, restVars>>

CleanupAtEveryScan(count) == TRUE

\* Line 319: self.scan_count % 30 == 0
CleanupDue(count) == count % CleanupPeriod = 0

\* Lines 316-320: the sleep is over; the scan is counted, and every
\* CleanupPeriod-th scan goes on to cleanup_stale_devices.
Poll ==
    /\ sup_pc = "poll"
    /\ sleep_left = 0
    /\ ble_pc = "idle"
    /\ scan_count < MaxScans \/ ~scanning
    /\ scan_count' = scan_count + 1
    /\ sup_pc' = IF CleanupDue(scan_count') THEN "cleanup" ELSE "running"
    /\ after_stop' = IF scanning THEN after_stop
                     ELSE [after_stop EXCEPT !.scans = @ + 1]
    /\ UNCHANGED <<scanning, sleep_left, failure, source_active, main_pc,
                   join_left, failures, waited>>
    /\ UNCHANGED <<registryVars, uiVars, netVars, workVars, histVars>>

\* Line 320, cleanup_stale_devices line 199: the lock is taken.
PollCleanupAcquire ==
    /\ sup_pc = "cleanup"
    /\ CleanupAcquire
    /\ UNCHANGED supVars

\* cleanup_stale_devices, lines 200-211; back to line 314.
PollCleanupRemove ==
    /\ sup_pc = "cleanup"
    /\ CleanupRemove
    /\ sup_pc' = "running"
    /\ after_stop' = IF scanning THEN after_stop
                     ELSE [after_stop EXCEPT !.evictions = @ + 1]
    /\ UNCHANGED histVars
    /\ UNCHANGED <<scanning, scan_count, sleep_left, failure, source_active,
                   main_pc, join_left, failures, waited>>

\* Line 322: the scanner is stopped.  A stop that raises may leave the source
\* running.
StopScanner(outcome, stopped) ==
    /\ sup_pc = "stopping"
    /\ ble_pc = "idle"
    /\ IF outcome = "ok"
       THEN /\ stopped
            /\ source_active' = FALSE
            /\ sup_pc' = "check"
            /\ UNCHANGED <<sleep_left, failure, failures, waited>>
       ELSE /\ Caught(outcome)
            /\ source_active' = (source_active /\ ~stopped)
    /\ UNCHANGED <<scanning, scan_count, main_pc, join_left>>
    /\ UNCHANGED <<registryVars, uiVars, netVars, restVars>>

BackoffOverClearing ==
    /\ sup_pc = "backoff"
    /\ sleep_left = 0
    /\ ble_pc = "idle"
    /\ sup_pc' = "check"
    /\ detected_airtags' = <<>>
    /\ UNCHANGED <<scanning, scan_count, sleep_left, failure, source_active,
                   main_pc, join_left, failures, waited>>
    /\ UNCHANGED <<airtags_lock, device_timeout, ble_pc, cb, delivered>>
    /\ UNCHANGED <<uiVars, netVars, restVars>>

\* Lines 331 and 340: the sleep of the handler is over; back to line 302.
BackoffOver ==
    /\ sup_pc = "backoff"
    /\ sleep_left = 0
    /\ ble_pc = "idle"
    /\ sup_pc' = "check"
    /\ UNCHANGED <<scanning, scan_count, sleep_left, failure, source_active,
                   main_pc, join_left, failures, waited>>
    /\ UNCHANGED <<registryVars, uiVars, netVars, restVars>>

\* The source delivers an advertisement: the event loop runs the callback
\* while the coroutine is suspended in a sleep.
SourceDelivers(address, rssi, manufacturer_data) ==
    /\ source_active
    /\ sup_pc \in {"poll", "backoff"}
    /\ DetectionCallback(address, rssi, manufacturer_data)
    /\ UNCHANGED <<histVars, stopVars, supVars>>

\* Lines 385-398: Ctrl+C; the flag is lowered and the worker thread joined.
Stop ==
    /\ main_pc = "loop"
    /\ scanning' = FALSE
    /\ main_pc' = "joining"
    /\ join_left' = JoinTimeout
    /\ UNCHANGED <<scan_count, sup_pc, sleep_left, failure, source_active,
                   failures, waited>>
    /\ UNCHANGED <<registryVars, uiVars, netVars, restVars>>

JoinWaitsForWorker ==
    /\ main_pc = "joining"
    /\ sup_pc = "stopped"
    /\ main_pc' = "done"
    /\ UNCHANGED <<scanning, scan_count, sup_pc, sleep_left, failure,
                   source_active, join_left, failures, waited>>
    /\ UNCHANGED <<registryVars, uiVars, netVars, restVars>>

\* Line 398: join returns, the thread over or the timeout.
JoinReturns ==
    /\ main_pc = "joining"
    /\ sup_pc = "stopped" \/ join_left = 0
    /\ main_pc' = "done"
    /\ UNCHANGED <<scanning, scan_count, sup_pc, sleep_left, failure,
                   source_active, join_left, failures, waited>>
    /\ UNCHANGED <<registryVars, uiVars, netVars, restVars>>

-----------------------------------------------------------------------------
(* Python's str, as far as the Scan-Line Parser uses it.  A str is a        *)
(* sequence of characters, a character a string of length one.              *)

Digits == <<"0", "1", "2", "3", "4", "5", "6", "7", "8", "9">>
HexLetters == {"A", "B", "C", "D", "E", "F", "a", "b", "c", "d", "e", "f"}
Whitespace == {" ", "\n"}

\* The model's str as a TLA+ string.
RECURSIVE Str(_)
Str(s) == IF s = <<>> THEN "" ELSE Head(s) \o Str(Tail(s))

StartsWith(s, sub) == Len(s) >= Len(sub) /\ SubSeq(s, 1, Len(sub)) = sub

\* sub in s
Contains(s, sub) == \E i \in 1..(Len(s) - Len(sub) + 1) : SubSeq(s, i, i + Len(sub) - 1) = sub

\* The k-th occurrence of the separator, its places being at; place 0 before
\* the first character and the place behind the last bound the outer parts.
Bound(s, at, k) ==
    IF k = 0 THEN 0
    ELSE IF k = Cardinality(at) + 1 THEN Len(s) + 1
    ELSE CHOOSE i \in at : Cardinality({j \in at : j < i}) = k - 1

SplitAt(s, at) ==
    [k \in 1..(Cardinality(at) + 1) |->
        SubSeq(s, Bound(s, at, k - 1) + 1, Bound(s, at, k) - 1)]

\* s.split(c), c one character: the parts between the occurrences of c,
\* from the left.
Split(s, c) == SplitAt(s, {i \in 1..Len(s) : s[i] = c})

\* sep.join(parts)
RECURSIVE Join(_, _)
Join(parts, sep) ==
    IF parts = <<>> THEN <<>>
    ELSE IF Len(parts) = 1 THEN parts[1]
    ELSE parts[1] \o sep \o Join(Tail(parts), sep)

\* s.replace(old, ''): the occurrences of old taken out, from the left.
RECURSIVE Remove(_, _)
Remove(s, old) ==
    IF s = <<>> THEN <<>>
    ELSE IF StartsWith(s, old) THEN Remove(SubSeq(s, Len(old) + 1, Len(s)), old)
    ELSE <<Head(s)>> \o Remove(Tail(s), old)

\* s.strip()
RECURSIVE LStrip(_)
LStrip(s) == IF s # <<>> /\ Head(s) \in Whitespace THEN LStrip(Tail(s)) ELSE s

RECURSIVE RStrip(_)
RStrip(s) ==
    IF s # <<>> /\ s[Len(s)] \in Whitespace THEN RStrip(SubSeq(s, 1, Len(s) - 1)) ELSE s

Strip(s) == LStrip(RStrip(s))

IsDigitChar(c) == \E i \in 1..10 : Digits[i] = c
DigitValue(c) == (CHOOSE i \in 1..10 : Digits[i] = c) - 1

\* s.isdigit(), for the characters of the model (ASCII)
IsDigit(s) == s # <<>> /\ \A i \in 1..Len(s) : IsDigitChar(s[i])

\* int(s) of a str of decimal digits
RECURSIVE DigitsValue(_)
DigitsValue(s) ==
    IF s = <<>> THEN 0
    ELSE 10 * DigitsValue(SubSeq(s, 1, Len(s) - 1)) + DigitValue(s[Len(s)])

\* s.upper()
UpperChar(c) ==
    CASE c = "a" -> "A" [] c = "b" -> "B" [] c = "c" -> "C"
      [] c = "d" -> "D" [] c = "e" -> "E" [] c = "f" -> "F"
      [] c = "x" -> "X" [] c = "z" -> "Z"
      [] OTHER -> c

Upper(s) == [i \in 1..Len(s) |-> UpperChar(s[i])]

\* What a conversion comes to: a value, or the exception it raises.
Value(v) == [raised |-> "", value |-> v]
Raises(exception) == [raised |-> exception, value |-> 0]

\* int(t) of a stripped text: a sign, if any, and decimal digits; ValueError
\* for anything else.
IntOfStripped(t) ==
    IF IsDigit(t) THEN Value(DigitsValue(t))
    ELSE IF t # <<>> /\ Head(t) = "-" /\ IsDigit(Tail(t)) THEN Value(0 - DigitsValue(Tail(t)))
    ELSE IF t # <<>> /\ Head(t) = "+" /\ IsDigit(Tail(t)) THEN Value(DigitsValue(Tail(t)))
    ELSE Raises("ValueError")

\* int(s)
IntOf(s) == IntOfStripped(Strip(s))

\* The largest decimal exponent of a finite float.
MaxFloatExponent == 308

RECURSIVE Pow10(_)
Pow10(n) == IF n = 0 THEN 1 ELSE 10 * Pow10(n - 1)

\* The first three decimals of a fraction, as thousandths.
Thousandths(fraction) ==
    IF Len(fraction) >= 3 THEN DigitsValue(SubSeq(fraction, 1, 3))
    ELSE DigitsValue(fraction) * Pow10(3 - Len(fraction))

\* int(float * 1000) of the float written whole.fraction, with the decimal
\* exponent after an e if has_exponent.
FloatTimes1000(whole, fraction, has_exponent, exponent_text) ==
    IF \/ whole = <<>> /\ fraction = <<>>
       \/ whole # <<>> /\ ~IsDigit(whole)
       \/ fraction # <<>> /\ ~IsDigit(fraction)
       \/ has_exponent /\ ~IsDigit(exponent_text)
    THEN Raises("ValueError")
    ELSE IF has_exponent /\ DigitsValue(exponent_text) > MaxFloatExponent
    THEN Raises("OverflowError")
    ELSE Value((DigitsValue(whole) * 1000 + Thousandths(fraction))
                 * Pow10(IF has_exponent THEN DigitsValue(exponent_text) ELSE 0))

FloatOfMantissa(mantissa, has_exponent, exponent_text) ==
    IF Len(mantissa) > 2 THEN Raises("ValueError")
    ELSE FloatTimes1000(mantissa[1],
                        IF Len(mantissa) = 2 THEN mantissa[2] ELSE <<>>,
                        has_exponent, exponent_text)

FloatOfParts(me) ==
    IF Len(me) > 2 THEN Raises("ValueError")
    ELSE FloatOfMantissa(Split(me[1], "."), Len(me) = 2,
                         IF Len(me) = 2 THEN me[2] ELSE <<>>)

\* int(float(s) * 1000) for a decimal text d.d or d.de+x: float(s) raises
\* ValueError for a text that is no number, and int() raises OverflowError for
\* the infinity that an exponent above MaxFloatExponent gives.
IntOfFloatTimes1000(s) == FloatOfParts(Split(Strip(s), "e"))

-----------------------------------------------------------------------------
(* Scan-Line Parser: WiFiScanner._parse_nmcli_line_robust and what it calls *)

\* An Optional[...] value: None is the empty set, a value v the set {v}.
Nothing == {}
Just(v) == {v}
The(maybe) == CHOOSE v \in maybe : TRUE

IsHexChar(c) == IsDigitChar(c) \/ c \in HexLetters

\* re: ^([0-9A-Fa-f]{2}[:-]){5}([0-9A-Fa-f]{2})$
MatchesMac(s) ==
    /\ Len(s) = 17
    /\ \A i \in 1..17 : IF i % 3 = 0 THEN s[i] \in {":", "-"} ELSE IsHexChar(s[i])

\* Lines 282-293: the cleaned text against the pattern.
ValidatedMac(cleaned) ==
    IF MatchesMac(cleaned) THEN Just(Upper(cleaned)) ELSE Nothing

\* _validate_bssid, lines 274-293
validate_bssid(bssid) ==
    IF bssid = <<>> THEN Nothing
    ELSE ValidatedMac(Strip(Remove(bssid, <<"\\">>)))

\* Lines 352-363: the except clause catches ValueError only.
CaughtValueError(converted) ==
    IF converted.raised = "ValueError" THEN Value(0) ELSE converted

FrequencyOfClean(freq_clean) ==
    CaughtValueError(IF Contains(freq_clean, <<".">>)
                     THEN IntOfFloatTimes1000(freq_clean)
                     ELSE IntOf(freq_clean))

\* _parse_frequency, lines 347-363
parse_frequency(freq_str) ==
    IF freq_str = <<>> THEN Value(0)
    ELSE FrequencyOfClean(Strip(Remove(Remove(Remove(freq_str, <<"M", "H", "z">>),
                                              <<"G", "H", "z">>), <<" ">>)))

\* _frequency_to_channel, lines 377-400
freq_to_chan_5g ==
    {<<5180, 36>>, <<5200, 40>>, <<5220, 44>>, <<5240, 48>>,
     <<5260, 52>>, <<5280, 56>>, <<5300, 60>>, <<5320, 64>>,
     <<5500, 100>>, <<5520, 104>>, <<5540, 108>>, <<5560, 112>>,
     <<5580, 116>>, <<5600, 120>>, <<5620, 124>>, <<5640, 128>>,
     <<5660, 132>>, <<5680, 136>>, <<5700, 140>>, <<5720, 144>>,
     <<5745, 149>>, <<5765, 153>>, <<5785, 157>>, <<5805, 161>>,
     <<5825, 165>>}

\* The channel, were 2484 MHz divided like the frequencies below it.
frequency_to_channel_by_division(frequency) ==
    IF 2412 <= frequency /\ frequency <= 2484
    THEN Just((frequency - 2412) \div 5 + 1)
    ELSE IF 5000 <= frequency /\ frequency <= 6000
    THEN {pair[2] : pair \in {q \in freq_to_chan_5g : q[1] = frequency}}
    ELSE Nothing

frequency_to_channel(frequency) ==
    IF 2412 <= frequency /\ frequency <= 2484
    THEN IF frequency = 2484 THEN Just(14) ELSE Just((frequency - 2412) \div 5 + 1)
    ELSE IF 5000 <= frequency /\ frequency <= 6000
    THEN {pair[2] : pair \in {q \in freq_to_chan_5g : q[1] = frequency}}
    ELSE Nothing

\* _parse_channel, lines 365-375
parse_channel(channel_str, frequency) ==
    IF channel_str # <<>> /\ IsDigit(channel_str)
    THEN Just(DigitsValue(channel_str))
    ELSE IF frequency > 0 THEN frequency_to_channel(frequency)
    ELSE Nothing

\* parts[a:b], Python's slice with 0-based bounds
Slice(parts, a, b) == SubSeq(parts, a + 1, IF b < Len(parts) THEN b ELSE Len(parts))

\* What _parse_nmcli_line_robust comes to: no record, a record, or the
\* exception that leaves it.
NoRecord == [status |-> "none"]
Raised(exception) == [status |-> "raised", exception |-> exception]

MinParts == 8

TooFewPartsForFour(parts) == Len(parts) < 4

\* Line 305: len(parts) < 8
TooFewParts(parts) == Len(parts) < MinParts

\* Lines 333-340, and the except clause of lines 342-345: the record, once
\* the frequency is parsed.
RecordOf(ssid, security, signal_str, freq, bssid_raw, channel_str) ==
    IF freq.raised # ""
    THEN IF freq.raised \in {"ValueError", "IndexError"}
         THEN NoRecord
         ELSE Raised(freq.raised)
    ELSE [status |-> "record",
          ssid |-> ssid,
          security |-> security,
          signal |-> IF IsDigit(signal_str) THEN DigitsValue(signal_str) ELSE 0,
          frequency |-> freq.value,
          bssid |-> validate_bssid(bssid_raw),
          channel |-> parse_channel(channel_str, freq.value)]

\* Lines 305-331: the fields of the parts.
ParsedParts(parts) ==
    IF TooFewParts(parts) THEN NoRecord
    ELSE RecordOf(Strip(parts[1]), Strip(parts[2]), Strip(parts[3]),
                  parse_frequency(Strip(parts[4])),
                  Join(Slice(parts, 4, 10), <<":">>),
                  IF Len(parts) > 10 THEN parts[11] ELSE <<>>)

\* _parse_nmcli_line_robust, lines 295-345
parse_nmcli_line_robust(text) ==
    IF Strip(text) = <<>> THEN NoRecord
    ELSE ParsedParts(Split(text, ":"))

\* The lines the parser is called on.  The first four fields are an ssid, a
\* security, a signal and a frequency text; the fields behind them are drawn
\* from FieldTexts: an octet as nmcli -t prints it (the colon behind it
\* escaped), two octets with a hyphen between them, and a digit.
SsidTexts == {<<"N">>, <<>>}
SecurityTexts == {<<"W", "P", "A", "2">>}
SignalTexts == {<<"7", "5">>, <<"x">>}
FreqTexts == {<<"2", "4", "3", "7", " ", "M", "H", "z">>, <<"2", ".", "4", "3", "7">>, <<"a", "b", "c">>, <<"1", ".", "5", "e", "4", "0", "0">>}
FieldTexts == {<<"b", "1", "\\">>, <<"C", "2", "-", "D", "3">>, <<"6">>}

\* Fields of a line.
MaxFields == 11

Heads == {<<a, b, c, d>> : a \in SsidTexts, b \in SecurityTexts,
                           c \in SignalTexts, d \in FreqTexts}

Tails == UNION {[1..n -> FieldTexts] : n \in 0..(MaxFields - 4)}

ExampleLine ==
    <<"M", "y", "N", "e", "t", ":", "W", "P", "A", "2", ":", "7", "5", ":",
      "2", "4", "3", "7", ":", "A", "A", ":", "B", "B", ":", "C", "C", ":",
      "D", "D", ":", "E", "E", ":", "F", "F", ":", "6">>

FewFieldsLine == <<"a", ":", "b", ":", "c", ":", "d", ":", "e">>

BlankLine == <<" ", " ">>

Lines ==
    {Join(head \o tail, <<":">>) : head \in Heads, tail \in Tails}
        \cup {ExampleLine, FewFieldsLine, BlankLine}

\* A call of _parse_nmcli_line_robust.
ParseLine ==
    /\ parsed = NotParsed
    /\ parsed' = parse_nmcli_line_robust(line)
    /\ UNCHANGED line
    /\ UNCHANGED <<registryVars, uiVars, netVars, clsVars, scanVars, appVars, derVars, histVars, stopVars, supVars>>

-----------------------------------------------------------------------------
(* A scan cycle: WiFiScanner.scan_networks, lines 195-256 *)

\* The band, were the test for 6000 and above made before the test for
\* 5000..6000.
BandSixFirst(frequency) ==
    IF frequency > 0
    THEN IF 2400 <= frequency /\ frequency <= 2500 THEN "2.4GHz"
         ELSE IF frequency >= 6000 THEN "6GHz"
         ELSE IF 5000 <= frequency /\ frequency <= 6000 THEN "5GHz"
         ELSE "Unknown"
    ELSE "Unknown"

\* WiFiNetwork.__post_init__, lines 54-65
Band(frequency) ==
    IF frequency > 0
    THEN IF 2400 <= frequency /\ frequency <= 2500 THEN "2.4GHz"
         ELSE IF 5000 <= frequency /\ frequency <= 6000 THEN "5GHz"
         ELSE IF frequency >= 6000 THEN "6GHz"
         ELSE "Unknown"
    ELSE "Unknown"

RssiDataAnyway(cmds) == cmds.rssi_data

\* Lines 203-218: rssi_data is filled only from the output of an iwlist that
\* succeeded.
RssiData(cmds) == IF cmds.iwlist THEN cmds.rssi_data ELSE {}

\* rssi_data.get(ssid, None)
RssiOf(rssi_data, ssid) == {pair[2] : pair \in {q \in rssi_data : q[1] = ssid}}

\* Lines 240-249: the WiFiNetwork of a record.
Network(record, rssi_data) ==
    [ssid |-> Str(record.ssid),
     security |-> Str(record.security),
     signal |-> record.signal,
     frequency |-> record.frequency,
     band |-> Band(record.frequency),
     channel |-> record.channel,
     bssid |-> IF record.bssid = Nothing THEN None ELSE Str(The(record.bssid)),
     rssi |-> RssiOf(rssi_data, Str(record.ssid))]

\* Frequencies in MHz, from below zero to above the edge of the 6 GHz band.
MaxFrequency == 6001
Frequencies == (0 - 1)..MaxFrequency

\* What a caller passes for band and timestamp.
PassedBands == {"Unknown", "6GHz"}
PassedTimestamps == {Nothing, Just("2024-01-01T00:00:00")}

\* The fields as the dataclass' __init__ has assigned them, lines 40-48.
NewNetworks ==
    [constructed : {"init"}, frequency : Frequencies, band : PassedBands,
     timestamp : PassedTimestamps]

\* WiFiNetwork.__post_init__, lines 50-65
PostInit ==
    /\ wifi_network.constructed = "init"
    /\ wifi_network' =
           [wifi_network EXCEPT !.constructed = "post_init",
                                !.timestamp = IF @ = Nothing THEN Just("now") ELSE @,
                                !.band = Band(wifi_network.frequency)]
    /\ UNCHANGED channel_call
    /\ UNCHANGED <<registryVars, uiVars, netVars, clsVars, parVars, scanVars, appVars, histVars, stopVars, supVars>>

\* The channel fields _parse_channel is called with.
ChannelTexts == {<<>>, <<"6">>, <<"1", "4", "9">>, <<"0">>, <<"x">>}

Calls == [status : {"called"}, channel_str : ChannelTexts, frequency : Frequencies]

\* A call of _parse_channel, lines 365-375.
ParseChannel ==
    /\ channel_call.status = "called"
    /\ channel_call' =
           [status |-> "returned",
            channel_str |-> channel_call.channel_str,
            frequency |-> channel_call.frequency,
            channel |-> parse_channel(channel_call.channel_str, channel_call.frequency)]
    /\ UNCHANGED wifi_network
    /\ UNCHANGED <<registryVars, uiVars, netVars, clsVars, parVars, scanVars, appVars, histVars, stopVars, supVars>>

\* Lines 227-250: the loop over the lines of the output.  It comes to the
\* networks of the lines, or to the exception that a line raised.
RECURSIVE NetworksOf(_, _, _)

\* Lines 229-250: the body of the loop, parsed_data in hand.
LoopBody(parsed_data, lines, rssi_data, done) ==
    IF parsed_data.status = "raised"
    THEN [raised |-> parsed_data.exception, networks |-> done]
    ELSE IF parsed_data.status = "none" \/ parsed_data.ssid = <<>>
    THEN NetworksOf(Tail(lines), rssi_data, done)
    ELSE NetworksOf(Tail(lines), rssi_data,
                    Append(done, Network(parsed_data, rssi_data)))

NetworksOf(lines, rssi_data, done) ==
    IF lines = <<>> THEN [raised |-> "", networks |-> done]
    ELSE LoopBody(parse_nmcli_line_robust(Head(lines)), lines, rssi_data, done)

\* Lines 251-256: the loop is over, or an exception has left it.
Finish(looped) ==
    IF looped.raised # ""
    THEN /\ scan_result' = looped.raised
         /\ UNCHANGED <<networks, discovered_networks>>
    ELSE /\ networks' = looped.networks
         /\ discovered_networks' =
                add_unique_networks(discovered_networks, looped.networks)
         /\ scan_result' = "returned"

\* scan_networks, lines 195-256.  The rescan's result is not looked at; a
\* failed list command returns [] at line 225; an exception of the loop
\* leaves scan_networks before line 255.
ScanCycle ==
    /\ scan_result = "pending"
    /\ IF ~commands.nmcli
       THEN /\ networks' = <<>>
            /\ scan_result' = "returned"
            /\ UNCHANGED discovered_networks
       ELSE Finish(NetworksOf(Split(Strip(commands.output), "\n"),
                              RssiData(commands), <<>>))
    /\ UNCHANGED commands
    /\ UNCHANGED <<registryVars, uiVars, clsVars, parVars, appVars, derVars, histVars, stopVars, supVars>>

\* The lines of the list command's output: the well-formed line, a line of 5
\* fields, a line whose signal, frequency and channel are no numbers, a line
\* whose frequency is a number no float holds, and a line whose signal is 150
\* and whose channel is 0.
NoNumbersLine ==
    <<"N", ":", "W", "P", "A", "2", ":", "x", ":", "a", "b", "c", ":", "b", "1", "\\", ":", "b", "1", "\\", ":", "b", "1", "\\", ":", "b", "1", "\\", ":", "b", "1", "\\", ":", "b", "1", "\\", ":", "z">>

HugeFrequencyLine ==
    <<"N", ":", "W", "P", "A", "2", ":", "7", "5", ":", "1", ".", "5", "e", "4", "0", "0", ":", "6", ":", "6", ":", "6", ":", "6">>

OutOfRangeLine ==
    <<"F", "a", "r", ":", "W", "P", "A", "2", ":", "1", "5", "0", ":", "2", "4", "3", "7", ":",
      "A", "A", ":", "B", "B", ":", "C", "C", ":", "D", "D", ":", "E", "E", ":", "0", "1", ":", "0">>

ScanLines ==
    {ExampleLine, FewFieldsLine, NoNumbersLine, HugeFrequencyLine, OutOfRangeLine}

\* Lines of one output.
MaxLines == 2

Outputs == {Join(ls, <<"\n">>) : ls \in UNION {[1..n -> ScanLines] : n \in 0..MaxLines}}

\* What iwlist's output gives, when it gives anything.
RssiTables == {{}, {<<"MyNet", -52>>}}

CommandResults ==
    [rescan : BOOLEAN, iwlist : BOOLEAN, nmcli : BOOLEAN,
     rssi_data : RssiTables, output : Outputs]

\* The registry after an earlier cycle that found the network "Old".
OldNetwork ==
    [ssid |-> "Old", security |-> "WPA2", signal |-> 40, frequency |-> 5180,
     band |-> "5GHz", channel |-> {36}, bssid |-> None, rssi |-> {}]

-----------------------------------------------------------------------------
(* The commands of the unified app that use the Network Registry:            *)
(* run_wss_continuous and run_wss_statistics, wss_module.py lines 636-689,   *)
(* called from the menu of src/wbs.py, lines 335-344.                        *)

\* WiFiScannerApp(), lines 600-603: a WiFiScanner of its own, whose
\* discovered_networks is empty (line 162).
NewWiFiScannerApp == <<>>

\* run_wss_continuous, line 641: the command makes its app; continuous_scan
\* begins.
WssContinuous ==
    /\ cmd_pc = "menu"
    /\ cmd_pc' = "continuous"
    /\ discovered_networks' = NewWiFiScannerApp
    /\ UNCHANGED <<networks, reported, found>>
    /\ UNCHANGED <<registryVars, uiVars, clsVars, parVars, scanVars, derVars, histVars, stopVars, supVars>>

\* continuous_scan, lines 409-444: one cycle, self.scan_networks().
WssScan(new_networks) ==
    /\ cmd_pc = "continuous"
    /\ ScanNetworks(new_networks)
    /\ found' = found \cup ExistingNetworks(discovered_networks')
    /\ UNCHANGED <<cmd_pc, reported>>

\* Ctrl+C, lines 443-444 and 650-652: back to the menu.
WssInterrupt ==
    /\ cmd_pc = "continuous"
    /\ cmd_pc' = "menu"
    /\ UNCHANGED <<reported, found>>
    /\ UNCHANGED <<registryVars, uiVars, netVars, clsVars, parVars, scanVars, derVars, histVars, stopVars, supVars>>

\* run_wss_statistics, line 682: the command makes its app.
WssStatistics ==
    /\ cmd_pc = "menu"
    /\ cmd_pc' = "statistics"
    /\ discovered_networks' = NewWiFiScannerApp
    /\ UNCHANGED <<networks, reported, found>>
    /\ UNCHANGED <<registryVars, uiVars, clsVars, parVars, scanVars, derVars, histVars, stopVars, supVars>>

\* show_statistics, lines 613-633: "No data to analyze" for an empty
\* registry, its length otherwise; back to the menu.
ShowStatistics ==
    /\ cmd_pc = "statistics"
    /\ reported' = {Len(discovered_networks)}
    /\ cmd_pc' = "menu"
    /\ UNCHANGED found
    /\ UNCHANGED <<registryVars, uiVars, netVars, clsVars, parVars, scanVars, derVars, histVars, stopVars, supVars>>

-----------------------------------------------------------------------------
(* Spec: the Device Registry's operations as the two threads run them.  The  *)
(* BLE worker calls cleanup_stale_devices from scanner_loop and              *)
(* detection_callback from its event loop, one at a time; SpecSupervisor     *)
(* has the schedule of scanner_loop.                                         *)

Init ==
    /\ ClsInit
    /\ SupInit
    /\ RegistryInit(DeviceTimeout)
    /\ UiInit
    /\ NetInit

Next ==
    \/ Tick
    \/ \E address \in Addresses, rssi \in RssiValues, md \in ManufacturerData :
          /\ delivered < MaxDetections
          /\ DetectionCallback(address, rssi, md)
          /\ UNCHANGED <<histVars, stopVars, supVars>>
    \/ CallbackStore /\ UNCHANGED <<histVars, stopVars, supVars>>
    \/ CleanupAcquire /\ UNCHANGED supVars
    \/ CleanupRemove /\ UNCHANGED <<histVars, stopVars, supVars>>
    \/ StatusPanel
    \/ TableAcquire
    \/ TableCopy
    \/ TableSort

Spec == Init /\ [][Next]_vars

(* SpecWorker: the BLE worker alone, no presentation loop running. *)

InitWorker ==
    /\ ClsInit
    /\ SupInit
    /\ RegistryInit(WorkerTimeout)
    /\ UiInit
    /\ NetInit

NextWorker ==
    \/ Tick
    \/ \E address \in Addresses, rssi \in RssiValues, md \in ManufacturerData :
          /\ delivered < MaxIngests
          /\ DetectionCallback(address, rssi, md)
          /\ UNCHANGED <<histVars, stopVars, supVars>>
    \/ CallbackStore /\ UNCHANGED <<histVars, stopVars, supVars>>
    \/ CleanupAcquire /\ UNCHANGED supVars
    \/ CleanupRemove /\ UNCHANGED <<histVars, stopVars, supVars>>

SpecWorker == InitWorker /\ [][NextWorker]_vars

(* SpecHistory: the BLE worker alone, with the history of its callbacks,   *)
(* stores and evictions.                                                   *)

InitHistory ==
    /\ ClsInit
    /\ SupInit
    /\ RegistryInit(WorkerTimeout)
    /\ UiInit
    /\ NetInit

NextHistory ==
    \/ Tick
    \/ \E address \in Addresses, rssi \in RssiValues, md \in ManufacturerData :
          /\ delivered < MaxIngests
          /\ CallbackObserved(address, rssi, md)
          /\ UNCHANGED <<stopVars, supVars>>
    \/ StoreObserved /\ UNCHANGED <<stopVars, supVars>>
    \/ CleanupAcquire /\ UNCHANGED supVars
    \/ CleanupObserved /\ UNCHANGED <<stopVars, supVars>>

SpecHistory == InitHistory /\ [][NextHistory]_vars

(* SpecNetworks: the scan cycles of one WiFiScanner. *)

InitNetworks ==
    /\ ClsInit
    /\ SupInit
    /\ RegistryInit(DeviceTimeout)
    /\ UiInit
    /\ NetInit

NextNetworks ==
    \E new_networks \in Batches : ScanNetworks(new_networks) /\ UNCHANGED appVars

SpecNetworks == InitNetworks /\ [][NextNetworks]_vars

(* SpecSupervisor: one run of the detector, scanner_loop on the worker      *)
(* thread and the main thread that stops it, with one address in range.     *)

SupervisedAddresses == {"A1"}
SupervisedRssi == {-70}

InitSupervisor ==
    /\ ClsInit
    /\ SupInit
    /\ RegistryInit(DeviceTimeout)
    /\ UiInit
    /\ NetInit

NextSupervisor ==
    \/ Tick
    \/ StartRun
    \/ LoopCheck
    \/ \E outcome \in SourceOutcomes : StartScanner(outcome)
    \/ RunningCheck
    \/ Poll
    \/ PollCleanupAcquire
    \/ PollCleanupRemove
    \/ \E outcome \in SourceOutcomes, stopped \in BOOLEAN : StopScanner(outcome, stopped)
    \/ BackoffOver
    \/ \E address \in SupervisedAddresses, rssi \in SupervisedRssi,
          md \in {NoData, AppleData(<<7, 25>>)} :
          /\ delivered < MaxDetections
          /\ SourceDelivers(address, rssi, md)
    \/ CallbackStore /\ UNCHANGED <<histVars, stopVars, supVars>>
    \/ Stop
    \/ JoinReturns

SpecSupervisor == InitSupervisor /\ [][NextSupervisor]_vars

(* SpecThreads: the run with its two threads.  The main thread is the       *)
(* presentation loop of run_cli_interface, lines 375-383, until Ctrl+C; the *)
(* worker thread has scanner_loop and the callback of one advertisement.    *)

\* Lines 376-383: a step of the refresh; the loop runs until the interrupt.
Refresh ==
    /\ main_pc = "loop"
    /\ (StatusPanel \/ TableAcquire \/ TableCopy \/ TableSort)

\* Lines 385-398: Ctrl+C in the presentation loop, wherever it is.  A with
\* block it is in releases the lock; the flag is lowered and the worker
\* thread joined.
Interrupt ==
    /\ main_pc = "loop"
    /\ scanning' = FALSE
    /\ main_pc' = "joining"
    /\ join_left' = JoinTimeout
    /\ airtags_lock' = IF airtags_lock = "ui" THEN "free" ELSE airtags_lock
    /\ ui_pc' = "status"
    /\ devices_copy' = DictCopy(<<>>)
    /\ UNCHANGED <<scan_count, sup_pc, sleep_left, failure, source_active,
                   failures, waited>>
    /\ UNCHANGED <<detected_airtags, device_timeout, ble_pc, cb, delivered>>
    /\ UNCHANGED <<sorted_devices, since_copy, copy_basis>>
    /\ UNCHANGED <<netVars, restVars>>

NextThreads ==
    \/ Tick
    \/ StartRun
    \/ LoopCheck
    \/ \E outcome \in SourceOutcomes : StartScanner(outcome)
    \/ RunningCheck
    \/ Poll
    \/ PollCleanupAcquire
    \/ PollCleanupRemove
    \/ \E outcome \in SourceOutcomes, stopped \in BOOLEAN : StopScanner(outcome, stopped)
    \/ BackoffOver
    \/ \E address \in SupervisedAddresses, rssi \in SupervisedRssi :
          /\ delivered = 0
          /\ SourceDelivers(address, rssi, AppleData(<<7, 25>>))
    \/ CallbackStore /\ UNCHANGED <<histVars, stopVars, supVars>>
    \/ Refresh
    \/ Interrupt
    \/ JoinReturns

SpecThreads == InitSupervisor /\ [][NextThreads]_vars

(* SpecShutdown: the same run with no device in range, and with the         *)
(* scheduling the threads have: time passes, the event loop of the worker   *)
(* runs its coroutine whenever it can go on, and join returns when it may.  *)

NextShutdown ==
    \/ Tick
    \/ StartRun
    \/ LoopCheck
    \/ \E outcome \in SourceOutcomes : StartScanner(outcome)
    \/ RunningCheck
    \/ Poll
    \/ PollCleanupAcquire
    \/ PollCleanupRemove
    \/ \E outcome \in SourceOutcomes, stopped \in BOOLEAN : StopScanner(outcome, stopped)
    \/ BackoffOver
    \/ Stop
    \/ JoinReturns

FairShutdown ==
    /\ WF_vars(Tick)
    /\ WF_vars(LoopCheck)
    /\ WF_vars(\E outcome \in SourceOutcomes : StartScanner(outcome))
    /\ WF_vars(RunningCheck)
    /\ WF_vars(Poll)
    /\ WF_vars(PollCleanupAcquire)
    /\ WF_vars(PollCleanupRemove)
    /\ WF_vars(\E outcome \in SourceOutcomes, stopped \in BOOLEAN : StopScanner(outcome, stopped))
    /\ WF_vars(BackoffOver)
    /\ WF_vars(JoinReturns)

SpecShutdown == InitSupervisor /\ [][NextShutdown]_vars /\ FairShutdown

(* SpecApp: a run of the unified app, its WiFi commands chosen at the menu; *)
(* a scan cycle comes up with one observation at most.                       *)

InitApp ==
    /\ ClsInit
    /\ SupInit
    /\ RegistryInit(DeviceTimeout)
    /\ UiInit
    /\ NetInit

NextApp ==
    \/ WssContinuous
    \/ \E new_networks \in {b \in Batches : Len(b) <= 1} : WssScan(new_networks)
    \/ WssInterrupt
    \/ WssStatistics
    \/ ShowStatistics

SpecApp == InitApp /\ [][NextApp]_vars

(* SpecParser: _parse_nmcli_line_robust, called on every line of Lines. *)

InitParser ==
    /\ line \in Lines
    /\ parsed = NotParsed
    /\ classified = <<>>
    /\ verdict = "pending"
    /\ ScanInit
    /\ AppInit
    /\ DerInit
    /\ HistInit
    /\ StopInit
    /\ SupInit
    /\ RegistryInit(DeviceTimeout)
    /\ UiInit
    /\ NetInit

NextParser == ParseLine

SpecParser == InitParser /\ [][NextParser]_vars

(* SpecDerive: a WiFiNetwork constructed, or _parse_channel called, on       *)
(* every frequency of Frequencies.                                          *)

InitDerive ==
    /\ \/ wifi_network \in NewNetworks /\ channel_call = NoCall
       \/ wifi_network = NoNetwork /\ channel_call \in Calls
    /\ classified = <<>>
    /\ verdict = "pending"
    /\ ParInit
    /\ ScanInit
    /\ AppInit
    /\ HistInit
    /\ StopInit
    /\ SupInit
    /\ RegistryInit(DeviceTimeout)
    /\ UiInit
    /\ NetInit

NextDerive == PostInit \/ ParseChannel

SpecDerive == InitDerive /\ [][NextDerive]_vars

(* SpecScan: one scan cycle, on every result of its three commands, with   *)
(* the registry empty or holding the network of an earlier cycle.           *)

InitScan ==
    /\ commands \in CommandResults
    /\ scan_result = "pending"
    /\ discovered_networks \in {<<>>, <<OldNetwork>>}
    /\ networks = <<>>
    /\ classified = <<>>
    /\ verdict = "pending"
    /\ ParInit
    /\ AppInit
    /\ DerInit
    /\ HistInit
    /\ StopInit
    /\ SupInit
    /\ RegistryInit(DeviceTimeout)
    /\ UiInit

NextScan == ScanCycle

SpecScan == InitScan /\ [][NextScan]_vars

(* SpecClassifier: is_airtag, called on every payload up to MaxPayloadLen. *)

Classify ==
    /\ verdict = "pending"
    /\ verdict' = CallIsAirtag(classified)
    /\ UNCHANGED classified
    /\ UNCHANGED <<registryVars, uiVars, netVars, supVars>>
    /\ UNCHANGED <<parVars, scanVars, appVars, derVars, histVars, stopVars>>

InitClassifier ==
    /\ classified \in PayloadsUpTo(MaxPayloadLen)
    /\ verdict = "pending"
    /\ RestInit
    /\ SupInit
    /\ RegistryInit(DeviceTimeout)
    /\ UiInit
    /\ NetInit

NextClassifier == Classify

SpecClassifier == InitClassifier /\ [][NextClassifier]_vars

-----------------------------------------------------------------------------
(* Steps of the registry's operations, as the formulas below name them *)

\* detection_callback stores its entry.
IngestStep == ble_pc = "callback" /\ ble_pc' = "idle"

\* cleanup_stale_devices removes the stale entries.
EvictStep == ble_pc = "cleanup" /\ ble_pc' = "idle"

\* create_status_panel reads the number of entries.
StatusStep == ui_pc = "status" /\ ui_pc' = "table"

\* create_display_table copies the registry.
CopyStep == ui_pc = "copy" /\ ui_pc' = "sort"

\* create_display_table sorts its copy.
SortStep == ui_pc = "sort" /\ ui_pc' = "status"

\* The entry the ingest of this step is about, before and after it.
StoredBefore == Get(detected_airtags, cb.address)
StoredAfter == Get(detected_airtags', cb.address)

-----------------------------------------------------------------------------
\* C1: every ingest of an accepted detection stores the new rssi and a trend
\* that compares it with the rssi the entry held, which is the rssi of the
\* preceding ingest of that address, since no other step changes an entry's
\* rssi or trend: red if greater, blue if smaller, green if equal; an address
\* that is absent is inserted with trend green.
C1_TrendFromPrecedingSample ==
    [][/\ IngestStep =>
            /\ cb.address \in Keys(detected_airtags')
            /\ StoredAfter.rssi = cb.rssi
            /\ IF cb.address \in Keys(detected_airtags)
               THEN /\ cb.rssi > StoredBefore.rssi => StoredAfter.trend = "red"
                    /\ cb.rssi < StoredBefore.rssi => StoredAfter.trend = "blue"
                    /\ cb.rssi = StoredBefore.rssi => StoredAfter.trend = "green"
               ELSE StoredAfter.trend = "green"
       /\ ~IngestStep =>
            \A a \in Keys(detected_airtags') :
                /\ a \in Keys(detected_airtags)
                /\ Get(detected_airtags', a).rssi = Get(detected_airtags, a).rssi
                /\ Get(detected_airtags', a).trend = Get(detected_airtags, a).trend
      ]_vars

\* A fourth ingest of an address has just stored a weaker signal: Falling.
C1_Witness ==
    /\ ble_pc = "idle"
    /\ \E i \in 1..Len(detected_airtags) :
          /\ detected_airtags[i].count = 4
          /\ detected_airtags[i].rssi = -80
          /\ detected_airtags[i].trend = "blue"
          /\ detected_airtags[i].age = 0

-----------------------------------------------------------------------------
\* C2: the registry holds at most one entry per address and every count is at
\* least 1; an ingest of an absent address stores count 1 and an ingest of a
\* present address raises its count by exactly 1, whatever the presentation
\* loop and the evictions do in between.
C2_OneEntryCountIncrements ==
    /\ [](/\ Cardinality(Keys(detected_airtags)) = Len(detected_airtags)
          /\ \A i \in 1..Len(detected_airtags) : detected_airtags[i].count >= 1)
    /\ [][IngestStep =>
            /\ cb.address \in Keys(detected_airtags')
            /\ IF cb.address \in Keys(detected_airtags)
               THEN StoredAfter.count = StoredBefore.count + 1
               ELSE StoredAfter.count = 1
         ]_vars

\* An address was ingested again while the rows on display still show its
\* first detection.
C2_Witness ==
    \E i \in 1..Len(detected_airtags), j \in 1..Len(sorted_devices) :
        /\ detected_airtags[i].count = 2
        /\ sorted_devices[j].address = detected_airtags[i].address
        /\ sorted_devices[j].count = 1

-----------------------------------------------------------------------------
\* C3: cleanup_stale_devices removes exactly the entries whose last_seen is
\* older than now - device_timeout (age > device_timeout): an entry of age
\* device_timeout or less stays, in its place and with all its fields.
Fresh(d) == {i \in 1..Len(d) : d[i].age <= device_timeout}

C3_EvictsExactlyTheStale ==
    [][EvictStep =>
          /\ Keys(detected_airtags') =
                {detected_airtags[i].address : i \in Fresh(detected_airtags)}
          /\ Len(detected_airtags') = Cardinality(Fresh(detected_airtags))
          /\ \A i \in Fresh(detected_airtags) :
                Get(detected_airtags', detected_airtags[i].address) = detected_airtags[i]
          /\ \A i, j \in 1..Len(detected_airtags') :
                i < j => IndexOf(detected_airtags, detected_airtags'[i].address)
                           < IndexOf(detected_airtags, detected_airtags'[j].address)
      ]_vars

\* Two addresses were ingested once each and one entry is left: the other was
\* evicted, and the one that stayed is exactly device_timeout old.
C3_Witness ==
    /\ ble_pc = "idle"
    /\ delivered = 2
    /\ Len(detected_airtags) = 1
    /\ detected_airtags[1].count = 1
    /\ detected_airtags[1].age = device_timeout

-----------------------------------------------------------------------------
\* C4: the rows of a snapshot are exactly the entries the registry held when
\* the copy was taken, none missing and none twice, by rssi descending; and a
\* snapshot taken with no ingest and no eviction since the one before has the
\* same rows in the same order (rows taken a tick apart differ in the age that
\* stands for the same last_seen, and in nothing else).
Elements(s) == {s[i] : i \in 1..Len(s)}

Descending(s) == \A i \in 1..Len(s) - 1 : s[i].rssi >= s[i + 1].rssi

Unaged(s) == [i \in 1..Len(s) |-> [s[i] EXCEPT !.age = 0]]

C4_SnapshotSortedAndRepeatable ==
    [][/\ CopyStep => devices_copy'.items = detected_airtags
       /\ SortStep =>
            /\ Len(sorted_devices') = Len(devices_copy.items)
            /\ Elements(sorted_devices') = Elements(devices_copy.items)
            /\ Descending(sorted_devices')
            /\ copy_basis = "clean" => sorted_devices' = sorted_devices
            /\ copy_basis = "aged" => Unaged(sorted_devices') = Unaged(sorted_devices)
      ]_vars

\* The second of two snapshots with nothing in between is on display, and the
\* sort has put the entry the registry holds last in front.
C4_Witness ==
    /\ ui_pc = "status"
    /\ copy_basis = "clean"
    /\ Len(sorted_devices) = 2
    /\ Len(detected_airtags) = 2
    /\ sorted_devices[1].rssi > sorted_devices[2].rssi
    /\ sorted_devices[1].address = detected_airtags[2].address

-----------------------------------------------------------------------------
\* C5: a snapshot is the registry of one instant: the copy is taken with the
\* lock held and the worker outside its critical sections, and equals the
\* registry; an ingest writes rssi, distance, trend, count and last_seen of its
\* entry in one step, under the lock, and touches no other entry, so every
\* entry read has all its fields from one ingest; and what the reader holds
\* changes in no step but its own copy and sort.
ReaderView == Items(devices_copy, detected_airtags)

Whole(e) ==
    /\ e.distance = calculate_distance(e.rssi)
    /\ e.count >= 1
    /\ e.count = 1 => e.trend = "green"

C5_SnapshotIsPointInTime ==
    /\ [](\A e \in Elements(ReaderView) \cup Elements(sorted_devices) : Whole(e))
    /\ [][/\ CopyStep =>
                /\ airtags_lock = "ui"
                /\ ble_pc = "idle"
                /\ ReaderView' = detected_airtags
          /\ IngestStep =>
                /\ airtags_lock = "ble"
                /\ StoredAfter.rssi = cb.rssi
                /\ StoredAfter.distance = cb.distance
                /\ StoredAfter.age = 0
                /\ \A a \in Keys(detected_airtags) \ {cb.address} :
                      /\ a \in Keys(detected_airtags')
                      /\ Get(detected_airtags', a) = Get(detected_airtags, a)
          /\ ~CopyStep /\ ~SortStep => ReaderView' = ReaderView
          /\ ~SortStep => sorted_devices' = sorted_devices
         ]_vars

\* The reader holds a copy in which an address has count 1 while the registry
\* has gone on to its second ingest.
C5_Witness ==
    /\ ui_pc = "sort"
    /\ \E i \in 1..Len(detected_airtags), j \in 1..Len(devices_copy.items) :
          /\ detected_airtags[i].address = devices_copy.items[j].address
          /\ detected_airtags[i].count = 2
          /\ devices_copy.items[j].count = 1

-----------------------------------------------------------------------------
\* C6: every access to the registry is made with the lock held, so that no read
\* of the presentation loop falls inside a critical section of the BLE worker.
C6_NoReadOverlapsMutation ==
    [][/\ StatusStep \/ CopyStep => airtags_lock # "ble" /\ ble_pc = "idle"
       /\ IngestStep \/ EvictStep => airtags_lock = "ble"
      ]_vars

-----------------------------------------------------------------------------
\* C7: no two stored observations have the same key, the ssid with the bssid
\* or, for an absent bssid, the placeholder: an observation whose key is stored
\* already, or comes earlier in the same batch, is discarded.
KeyOf(network) ==
    <<network.ssid, IF network.bssid = None THEN "placeholder" ELSE network.bssid>>

C7_KeysAreUnique ==
    \A i, j \in 1..Len(discovered_networks) :
        i # j => KeyOf(discovered_networks[i]) # KeyOf(discovered_networks[j])

\* The last scan offered, twice, the key of the one stored observation, which
\* an earlier scan had stored with another signal.
C7_Witness ==
    /\ Len(discovered_networks) = 1
    /\ Len(networks) = 2
    /\ \A i \in 1..2 :
          /\ KeyOf(networks[i]) = KeyOf(discovered_networks[1])
          /\ networks[i] # discovered_networks[1]

-----------------------------------------------------------------------------
\* C8: a scan leaves the stored observations as they are, as a prefix of the
\* registry, and appends, in batch order, the observations of the batch whose
\* key is neither stored nor earlier in the batch; a duplicate changes nothing.
IsNew(discovered, batch, i) ==
    /\ \A k \in 1..Len(discovered) : KeyOf(discovered[k]) # KeyOf(batch[i])
    /\ \A k \in 1..(i - 1) : KeyOf(batch[k]) # KeyOf(batch[i])

RECURSIVE NewOnes(_, _, _)
NewOnes(discovered, batch, i) ==
    IF i > Len(batch) THEN <<>>
    ELSE (IF IsNew(discovered, batch, i) THEN <<batch[i]>> ELSE <<>>)
            \o NewOnes(discovered, batch, i + 1)

C8_AppendOnly ==
    [][discovered_networks' =
          discovered_networks \o NewOnes(discovered_networks, networks', 1)]_vars

\* The last scan offered a stored key with another signal and then a new key:
\* the first is stored as it was, the second behind it.
C8_Witness ==
    /\ Len(discovered_networks) = 2
    /\ Len(networks) = 2
    /\ KeyOf(networks[1]) = KeyOf(discovered_networks[1])
    /\ networks[1].signal # discovered_networks[1].signal
    /\ networks[2] = discovered_networks[2]

-----------------------------------------------------------------------------
\* C9: is_airtag returns true exactly for a payload of 4 bytes or more that
\* begins 12 19 10 and for a payload of 2 bytes or more that begins 07 19; it
\* returns false for every other payload and raises for none.
BeginsWith(payload, bytes) ==
    /\ Len(payload) >= Len(bytes)
    /\ \A i \in 1..Len(bytes) : payload[i] = bytes[i]

C9_ClassifierContract ==
    verdict # "pending" =>
        verdict = IF \/ Len(classified) >= 4 /\ BeginsWith(classified, <<18, 25, 16>>)
                     \/ Len(classified) >= 2 /\ BeginsWith(classified, <<7, 25>>)
                  THEN "true" ELSE "false"

\* The payload 12 19 10, of three bytes, was classified: not a tag.
C9_Witness ==
    /\ classified = <<18, 25, 16>>
    /\ verdict = "false"

-----------------------------------------------------------------------------
\* C10: the sleep scanner_loop begins when it has caught an exception is 5
\* ticks for a BleakError and 15 for any other, whatever it caught before, and
\* it goes on to start a source again only when that many ticks have passed.
C10_BackoffByFailureClass ==
    [][/\ sup_pc # "backoff" /\ sup_pc' = "backoff" =>
            sleep_left' = IF failure' = "BleakError" THEN 5 ELSE 15
       /\ sup_pc = "backoff" =>
            /\ sup_pc' \in {"backoff", "check"}
            /\ sup_pc' = "check" =>
                  waited >= IF failure = "BleakError" THEN 5 ELSE 15
       /\ sup_pc' = "starting" => sup_pc \in {"check", "starting"}
      ]_vars

\* After a BleakError and then another exception, 15 ticks have passed and the
\* worker is about to start a source again.
C10_Witness ==
    /\ sup_pc = "starting"
    /\ failures = 2
    /\ failure = "Exception"
    /\ waited = 15
    /\ scanning

-----------------------------------------------------------------------------
\* C11: no failure of the source ends the worker: a caught exception leads to
\* the backoff sleep, the sleep to the check of the flag, and the check to a
\* new start while the flag is up; the coroutine ends only by finding the flag
\* down, and a failure changes nothing of the main thread.
Cycle == {"check", "starting", "running", "poll", "cleanup", "stopping", "backoff"}

C11_FailureNeverEndsTheWorker ==
    [][/\ sup_pc \in Cycle =>
            /\ sup_pc' \in Cycle \cup {"stopped"}
            /\ sup_pc' = "stopped" => ~scanning /\ sup_pc = "check"
       /\ failures' # failures =>
            /\ sup_pc \in {"starting", "stopping"}
            /\ sup_pc' = "backoff"
            /\ main_pc' = main_pc
            /\ scanning' = scanning
       /\ sup_pc = "backoff" /\ sup_pc' # "backoff" => sup_pc' = "check"
       /\ sup_pc = "check" /\ scanning /\ sup_pc' # "check" => sup_pc' = "starting"
      ]_vars

\* After two failures in a row, a BleakError and another exception, the source
\* is running.
C11_Witness ==
    /\ sup_pc = "running"
    /\ source_active
    /\ failures = 2
    /\ scan_count = 0
    /\ scanning

-----------------------------------------------------------------------------
\* C12: once the flag is down the coroutine catches no further exception and
\* begins no further backoff sleep or start of a source, and when it has
\* ended it stays ended: the source is not started again.
FlagDown == main_pc \in {"joining", "done"}

C12_StopGoesStraightToStopped ==
    [][/\ FlagDown =>
            /\ failures' = failures
            /\ sup_pc # "backoff" => sup_pc' # "backoff"
            /\ sup_pc # "starting" => sup_pc' # "starting"
       /\ sup_pc = "stopped" =>
            /\ sup_pc' = "stopped"
            /\ source_active' = source_active
      ]_vars

-----------------------------------------------------------------------------
\* C13: shutdown completes.  When the timeout of the join has run out, join
\* can return whatever the worker is doing; the main thread, once joining,
\* gets done; and the worker, once the flag is down, comes to its end.
C13_ShutdownCompletes ==
    /\ [](main_pc = "joining" /\ join_left = 0 => ENABLED JoinReturns)
    /\ (main_pc = "joining" ~> main_pc = "done")
    /\ (FlagDown ~> sup_pc = "stopped")

\* The main thread is done while the worker is still in the sleep of 15 that
\* followed a failure of scanner.stop().
C13_Witness ==
    /\ main_pc = "done"
    /\ sup_pc = "backoff"
    /\ failure = "Exception"
    /\ sleep_left = LongBackoff - JoinTimeout

-----------------------------------------------------------------------------
\* C14: every poll adds exactly one to the scan counter and nothing else
\* changes it; a poll goes on to cleanup_stale_devices exactly when the counter
\* has become a multiple of 30; entries are removed only there; and an ingest
\* removes no entry.
PollStep == sup_pc = "poll" /\ sup_pc' # "poll"

C14_EvictionEveryThirtiethPoll ==
    [][/\ PollStep =>
            /\ scan_count' = scan_count + 1
            /\ sup_pc' = "cleanup" <=> scan_count' % 30 = 0
       /\ scan_count' # scan_count => PollStep
       /\ EvictStep => sup_pc = "cleanup" /\ scan_count > 0 /\ scan_count % 30 = 0
       /\ sup_pc = "cleanup" /\ sup_pc' # "cleanup" => EvictStep
       /\ IngestStep => Keys(detected_airtags) \subseteq Keys(detected_airtags')
       /\ ~EvictStep => Keys(detected_airtags) \subseteq Keys(detected_airtags')
      ]_vars

\* The thirtieth poll has removed the entry of a device that was ingested
\* during the run and is stale.
C14_Witness ==
    /\ scan_count = 30
    /\ sup_pc = "running"
    /\ delivered > 0
    /\ detected_airtags = <<>>

-----------------------------------------------------------------------------
\* C15: catching an exception, ending the backoff sleep and going to start a
\* source again leave the registry as it is; while the coroutine is in its
\* backoff sleep no entry is removed, and an entry changes only by the ingest
\* of an advertisement (its age apart, which is the passing of time).
Stored(d) == [i \in 1..Len(d) |-> [d[i] EXCEPT !.age = 0]]

FailureStep == failures' # failures

RestartStep ==
    \/ sup_pc = "backoff" /\ sup_pc' # "backoff"
    \/ sup_pc = "check" /\ sup_pc' # "check"
    \/ sup_pc = "starting" /\ sup_pc' # "starting"

C15_RestartsLeaveRegistry ==
    [][/\ FailureStep \/ RestartStep => detected_airtags' = detected_airtags
       /\ sup_pc = "backoff" /\ ~IngestStep =>
            Stored(detected_airtags') = Stored(detected_airtags)
       /\ sup_pc = "backoff" => Keys(detected_airtags) \subseteq Keys(detected_airtags')
      ]_vars

\* A failure of scanner.stop() was caught and the backoff sleep is over, and
\* the entry ingested before the failure is in the registry.
C15_Witness ==
    /\ sup_pc = "check"
    /\ failures = 1
    /\ waited >= ShortBackoff
    /\ Len(detected_airtags) = 1
    /\ detected_airtags[1].count = 1

-----------------------------------------------------------------------------
\* C16: the commands of one run share one Network Registry: what statistics
\* reports as the total of networks is the number of networks the scans of
\* this run have stored.
C16_OneRegistryPerRun ==
    [][cmd_pc = "statistics" /\ cmd_pc' = "menu" =>
          reported' = {Cardinality(found)}]_vars

-----------------------------------------------------------------------------
\* C17: a line of fewer than 8 colon-separated fields gives no record; a line
\* of 11 well-formed fields gives the record whose ssid is field 0, security
\* field 1, signal field 2, frequency field 3, bssid fields 4 to 9 joined by
\* colons and channel field 10; the line
\* MyNet:WPA2:75:2437:AA:BB:CC:DD:EE:FF:6 gives MyNet, WPA2, 75, 2437,
\* AA:BB:CC:DD:EE:FF and 6.
NumFields(s) == Cardinality({i \in 1..Len(s) : s[i] = ":"}) + 1

Field(s, k) == Split(s, ":")[k + 1]

\* An octet field: two hex digits, and the backslash nmcli may put behind.
IsOctetField(f) ==
    /\ Len(f) \in {2, 3}
    /\ IsHexChar(f[1]) /\ IsHexChar(f[2])
    /\ Len(f) = 3 => f[3] = "\\"

WellFormedEleven(s) ==
    /\ NumFields(s) = 11
    /\ Field(s, 0) # <<>>
    /\ IsDigit(Field(s, 2))
    /\ Str(Field(s, 3)) \in {"2437", "2437 MHz", "2.437"}
    /\ \A k \in 4..9 : IsOctetField(Field(s, k))
    /\ IsDigit(Field(s, 10))

C17_FieldsOfALine ==
    parsed # NotParsed =>
        /\ NumFields(line) < 8 => parsed = NoRecord
        /\ WellFormedEleven(line) =>
              /\ parsed.status = "record"
              /\ parsed.ssid = Field(line, 0)
              /\ parsed.security = Field(line, 1)
              /\ parsed.signal = DigitsValue(Field(line, 2))
              /\ parsed.frequency = 2437
              /\ parsed.bssid =
                    {Upper(Join([k \in 1..6 |-> SubSeq(Field(line, k + 3), 1, 2)], <<":">>))}
              /\ parsed.channel = {DigitsValue(Field(line, 10))}
        /\ line = ExampleLine =>
              /\ parsed.status = "record"
              /\ Str(parsed.ssid) = "MyNet"
              /\ Str(parsed.security) = "WPA2"
              /\ parsed.signal = 75
              /\ parsed.frequency = 2437
              /\ parsed.bssid # {} /\ Str(The(parsed.bssid)) = "AA:BB:CC:DD:EE:FF"
              /\ parsed.channel = {6}

\* A line of 11 fields whose octets nmcli has escaped was parsed: its record
\* has the bssid B1:B1:B1:B1:B1:B1 and the channel 6.
C17_Witness ==
    /\ parsed # NotParsed
    /\ WellFormedEleven(line)
    /\ line # ExampleLine
    /\ Str(The(parsed.bssid)) = "B1:B1:B1:B1:B1:B1"
    /\ parsed.channel = {6}

-----------------------------------------------------------------------------
\* C20: the bssid of a record is absent, or six octets of two uppercase hex
\* digits each with colons between them.
IsUpperHexChar(c) == IsDigitChar(c) \/ c \in {"A", "B", "C", "D", "E", "F"}

Canonical(s) ==
    /\ Len(s) = 17
    /\ \A i \in 1..17 : IF i % 3 = 0 THEN s[i] = ":" ELSE IsUpperHexChar(s[i])

C20_BssidAbsentOrCanonical ==
    parsed.status = "record" =>
        parsed.bssid = Nothing \/ Canonical(The(parsed.bssid))

-----------------------------------------------------------------------------
\* C18: a malformed line never aborts the batch: whatever the lines of the
\* output are, the cycle returns, and every well-formed line of the output
\* has its network among the networks returned and in the registry.
OutputLines == Split(Strip(commands.output), "\n")

HasLine(l) == \E i \in 1..Len(OutputLines) : OutputLines[i] = l

C18_MalformedLineNeverAborts ==
    scan_result # "pending" /\ commands.nmcli =>
        /\ scan_result = "returned"
        /\ HasLine(ExampleLine) =>
              /\ \E i \in 1..Len(networks) :
                    networks[i].ssid = "MyNet" /\ networks[i].bssid = "AA:BB:CC:DD:EE:FF"
              /\ "MyNet|AA:BB:CC:DD:EE:FF" \in ExistingNetworks(discovered_networks)

-----------------------------------------------------------------------------
\* C19: a cycle whose list command failed returns no networks and leaves the
\* registry as it was; a failure of the rescan or of iwlist never keeps the
\* cycle from returning (only an exception of a line does), and the networks
\* of a cycle whose iwlist failed are stored with no rssi.
ScanStep == scan_result = "pending" /\ scan_result' # "pending"

LineRaises(l) == parse_nmcli_line_robust(l).status = "raised"

C19_CommandFailures ==
    [][ScanStep =>
          /\ ~commands.nmcli =>
                /\ scan_result' = "returned"
                /\ networks' = <<>>
                /\ discovered_networks' = discovered_networks
          /\ commands.nmcli =>
                /\ scan_result' = "returned" \/ \E i \in 1..Len(OutputLines) :
                                                    LineRaises(OutputLines[i])
                /\ scan_result' = "returned" =>
                      /\ HasLine(ExampleLine) =>
                            "MyNet|AA:BB:CC:DD:EE:FF"
                                \in ExistingNetworks(discovered_networks')
                      /\ ~commands.iwlist =>
                            \A i \in 1..Len(networks') : networks'[i].rssi = Nothing
                      /\ \A i \in 1..Len(networks') :
                            networks'[i] \in Elements(discovered_networks')
      ]_vars

\* The rescan and iwlist failed, though iwlist's output would have held an
\* rssi for MyNet; the list command succeeded, and MyNet is stored with its
\* rssi absent behind the network of the earlier cycle.
C19_Witness ==
    /\ scan_result = "returned"
    /\ ~commands.rescan /\ ~commands.iwlist /\ commands.nmcli
    /\ commands.rssi_data # {}
    /\ Len(discovered_networks) = 2
    /\ discovered_networks[1] = OldNetwork
    /\ discovered_networks[2].ssid = "MyNet"
    /\ discovered_networks[2].rssi = Nothing

-----------------------------------------------------------------------------
\* C21: a WiFiNetwork has the band of its own frequency, whatever band its
\* constructor was passed: 2400..2500 is 2.4GHz, 5000..6000 is 5GHz, above
\* 6000 is 6GHz, everything else (zero and below too) is Unknown; 2437 is
\* 2.4GHz and 5180 is 5GHz.
C21_BandOfOwnFrequency ==
    wifi_network.constructed = "post_init" =>
        /\ wifi_network.frequency \in 2400..2500 => wifi_network.band = "2.4GHz"
        /\ wifi_network.frequency \in 5000..6000 => wifi_network.band = "5GHz"
        /\ wifi_network.frequency > 6000 => wifi_network.band = "6GHz"
        /\ wifi_network.frequency \notin (2400..2500) \cup (5000..6000)
              /\ wifi_network.frequency <= 6000 => wifi_network.band = "Unknown"
        /\ wifi_network.frequency = 2437 => wifi_network.band = "2.4GHz"
        /\ wifi_network.frequency = 5180 => wifi_network.band = "5GHz"

\* A WiFiNetwork of exactly 6000 MHz was constructed: its band is 5GHz.
C21_Witness ==
    /\ wifi_network.constructed = "post_init"
    /\ wifi_network.frequency = 6000
    /\ wifi_network.band = "5GHz"

\* C21 as it was stated: 5000..6000 is 5GHz and 6000 and above is 6GHz.
C21_AsStated ==
    wifi_network.constructed = "post_init" =>
        /\ wifi_network.frequency \in 2400..2500 => wifi_network.band = "2.4GHz"
        /\ wifi_network.frequency \in 5000..6000 => wifi_network.band = "5GHz"
        /\ wifi_network.frequency >= 6000 => wifi_network.band = "6GHz"
        /\ wifi_network.frequency \notin (2400..2500) \cup (5000..6000)
              /\ wifi_network.frequency < 6000 => wifi_network.band = "Unknown"

-----------------------------------------------------------------------------
\* C22: a channel field that is present and numeric is the channel; without
\* one, a frequency in 2412..2484 has channel 14 at 2484 and
\* (frequency - 2412) div 5 + 1 elsewhere, a frequency in 5000..6000 has the
\* channel of the table of 25 entries (5180 is 36, 5825 is 165) or none when
\* the table does not hold it, and every other frequency has none.
Numeric(text) == text # <<>> /\ IsDigit(text)

TableChannel(f) == {pair[2] : pair \in {q \in freq_to_chan_5g : q[1] = f}}

C22_ChannelDerivation ==
    channel_call.status = "returned" =>
        /\ Numeric(channel_call.channel_str) =>
              /\ channel_call.channel = {DigitsValue(channel_call.channel_str)}
              /\ Str(channel_call.channel_str) = "6" => channel_call.channel = {6}
              /\ Str(channel_call.channel_str) = "149" => channel_call.channel = {149}
        /\ ~Numeric(channel_call.channel_str) =>
              /\ channel_call.frequency = 2484 => channel_call.channel = {14}
              /\ channel_call.frequency \in 2412..2483 =>
                    channel_call.channel = {(channel_call.frequency - 2412) \div 5 + 1}
              /\ channel_call.frequency \in 5000..6000 =>
                    /\ channel_call.channel = TableChannel(channel_call.frequency)
                    /\ Cardinality(channel_call.channel) <= 1
                    /\ channel_call.frequency = 5180 => channel_call.channel = {36}
                    /\ channel_call.frequency = 5825 => channel_call.channel = {165}
                    /\ channel_call.frequency = 5000 => channel_call.channel = {}
              /\ channel_call.frequency \notin (2412..2484) \cup (5000..6000) =>
                    channel_call.channel = {}
        /\ Cardinality(freq_to_chan_5g) = 25

\* _parse_channel was called with no channel field on 2484 MHz: channel 14.
C22_Witness ==
    /\ channel_call.status = "returned"
    /\ channel_call.channel_str = <<>>
    /\ channel_call.frequency = 2484
    /\ channel_call.channel = {14}

-----------------------------------------------------------------------------
\* C30: the channel derived from a frequency in 2412..2484, no channel field
\* given, is a channel of the 2.4 GHz band, 1 to 14.
C30_DerivedChannelWithinBand ==
    /\ channel_call.status = "returned"
    /\ channel_call.channel_str = <<>>
    /\ channel_call.frequency \in 2412..2484
    => \E channel \in 1..14 : channel_call.channel = {channel}

-----------------------------------------------------------------------------
\* C23: every network that the parser produced and the registry holds has a
\* signal within 0..100 and, if it has a channel, a positive one; a signal
\* field that is no number is stored as 0.
C23_SignalAndChannelRanges ==
    /\ \A i \in 1..Len(discovered_networks) :
          /\ discovered_networks[i].signal \in 0..100
          /\ \A channel \in discovered_networks[i].channel : channel > 0
    /\ scan_result = "returned" /\ commands.nmcli /\ HasLine(NoNumbersLine) =>
          \E i \in 1..Len(networks) : networks[i].ssid = "N" /\ networks[i].signal = 0

-----------------------------------------------------------------------------
\* C24: a call of the detection callback whose advertisement has no
\* manufacturer data, no payload of company 76, an empty payload or a payload
\* the classifier rejects leaves the registry as it was, takes no lock and
\* stores nothing later; the registry holds only addresses whose payload the
\* classifier has accepted.
Miss(manufacturer_data) ==
    \/ manufacturer_data = NoData
    \/ 76 \notin DOMAIN manufacturer_data
    \/ manufacturer_data[76] = <<>>
    \/ ~is_airtag(manufacturer_data[76])

C24_MissChangesNothing ==
    /\ [](Keys(detected_airtags) \subseteq accepted)
    /\ [][observed' # observed /\ Miss(observed'.manufacturer_data) =>
            /\ detected_airtags' = detected_airtags
            /\ airtags_lock' = airtags_lock
            /\ ble_pc' = "idle"
            /\ cb' = cb
            /\ accepted' = accepted
         ]_vars

\* The callback was called last with a payload the classifier rejects, for an
\* address the registry tracks with a count of 2.
C24_Witness ==
    /\ observed.manufacturer_data = AppleData(<<18, 25, 17, 0>>)
    /\ observed.address \in Keys(detected_airtags)
    /\ Get(detected_airtags, observed.address).count = 2
    /\ ble_pc = "idle"

-----------------------------------------------------------------------------
\* C25: no thread holds the registry lock across a suspension point.  While
\* the worker's coroutine sleeps in its poll or its backoff and no callback
\* runs, the worker does not hold the lock; while the presentation loop is
\* between two refreshes, it does not hold the lock; and whoever holds the
\* lock is in a registry operation whose next step releases it, so no thread
\* waits for the other beyond one registry operation and the two never
\* deadlock.
WorkerSuspended == sup_pc \in {"poll", "backoff"} /\ ble_pc = "idle"

PresentationSuspended == ui_pc = "status"

C25_LockNotHeldAcrossSuspension ==
    /\ WorkerSuspended => airtags_lock # "ble"
    /\ PresentationSuspended => airtags_lock # "ui"
    /\ airtags_lock = "ble" =>
          \/ ble_pc = "callback" /\ ENABLED (CallbackStore /\ UNCHANGED <<histVars, stopVars, supVars>>)
          \/ ble_pc = "cleanup" /\ ENABLED PollCleanupRemove
    /\ airtags_lock = "ui" => ui_pc = "copy" /\ ENABLED Refresh

\* Both threads are suspended after each has used the lock: the worker sleeps
\* in the poll after the 30th scan's eviction, the presentation loop is
\* between two refreshes with the stored entry in its rows.
C25_Witness ==
    /\ sup_pc = "poll" /\ ble_pc = "idle" /\ sleep_left > 0
    /\ scan_count = CleanupPeriod
    /\ ui_pc = "status" /\ main_pc = "loop"
    /\ sorted_devices # <<>>
    /\ airtags_lock = "free"

-----------------------------------------------------------------------------
\* C26: eviction forgets an address.  An address stored while the registry
\* does not hold it, evicted before or not, gets an entry of count 1 and
\* trend stable (green), and the count of an entry is the number of stores
\* of its address since the entry was inserted: all its stores less those
\* of the entries evicted.
StoredFor(address) == ingested'[address] # ingested[address]

C26_EvictionForgets ==
    /\ [](\A address \in Keys(detected_airtags) :
            Get(detected_airtags, address).count
                = ingested[address] - evicted[address])
    /\ [][\A address \in Addresses :
            StoredFor(address) /\ address \notin Keys(detected_airtags) =>
                /\ Get(detected_airtags', address).count = 1
                /\ Get(detected_airtags', address).trend = "green"
         ]_vars

\* An address was stored twice, evicted at count 2 and stored again with a
\* weaker signal: its count went down to 1 and its trend is stable.
C26_Witness ==
    \E address \in Keys(detected_airtags) :
        /\ evicted[address] = 2
        /\ ingested[address] = 3
        /\ Get(detected_airtags, address).count = 1
        /\ Get(detected_airtags, address).trend = "green"
        /\ Get(detected_airtags, address).rssi = -80

-----------------------------------------------------------------------------
\* C27: entries leave the registry only in the eviction of a poll whose scan
\* counter is a multiple of 30, and those that leave are the stale ones; no
\* entry leaves in a store, in a snapshot or while the supervisor is in its
\* backoff.  The snapshot copies every entry and shows every entry it
\* copied, the stale ones too.
Leaving == Keys(detected_airtags) \ Keys(detected_airtags')

C27_OnlyEvictionRemoves ==
    [][/\ Leaving # {} =>
             /\ sup_pc = "cleanup" /\ ble_pc = "cleanup"
             /\ scan_count % 30 = 0
             /\ Leaving = StaleAddresses(detected_airtags, device_timeout)
       /\ sup_pc = "backoff" => Leaving = {}
       /\ ui_pc = "copy" /\ ui_pc' = "sort" =>
             /\ devices_copy'.items = detected_airtags
             /\ detected_airtags' = detected_airtags
       /\ ui_pc = "sort" /\ ui_pc' = "status" /\ main_pc' = "loop" =>
             /\ Elements(sorted_devices') = Elements(devices_copy.items)
             /\ detected_airtags' = detected_airtags
      ]_vars

\* The supervisor is in its backoff, the registry holds a stale entry and the
\* rows on display show it as stale.
C27_Witness ==
    /\ sup_pc = "backoff"
    /\ StaleAddresses(detected_airtags, device_timeout) # {}
    /\ \E i \in 1..Len(sorted_devices) : sorted_devices[i].age > device_timeout

-----------------------------------------------------------------------------
\* C28: at most one source is active: the supervisor starts a source only
\* when none that it started is still running, and when the worker has
\* stopped no source is running.
C28_AtMostOneSource ==
    /\ [][sup_pc = "starting" /\ sup_pc' = "running" => ~source_active]_vars
    /\ [](sup_pc = "stopped" => ~source_active)

-----------------------------------------------------------------------------
\* C29: with the flag down the worker counts at most one more scan and runs
\* at most one more eviction before it has stopped; the scan counter never
\* goes down, changes by one and only at the end of a poll, and stays as it
\* is in the backoff and when a source is started again.
C29_AtMostOneMoreScan ==
    /\ [](after_stop.scans <= 1 /\ after_stop.evictions <= 1)
    /\ [][/\ scan_count' >= scan_count
          /\ scan_count' # scan_count =>
                sup_pc = "poll" /\ scan_count' = scan_count + 1
          /\ sup_pc \in {"backoff", "check", "starting"} => scan_count' = scan_count
          /\ sup_pc = "stopped" => after_stop' = after_stop /\ scan_count' = scan_count
         ]_vars

\* The flag went down during the poll before the 30th scan: the worker
\* counted that scan, ran its eviction and stopped, after a restart of the
\* source earlier in the run.
C29_Witness ==
    /\ sup_pc = "stopped"
    /\ after_stop = [scans |-> 1, evictions |-> 1]
    /\ scan_count = 30
    /\ failures > 0

=============================================================================
